---- MODULE Spec2Model ----
(***************************************************************************)
(* EchoVerse content pipeline: the persisted search index of               *)
(* search_engine.py (content and search_index tables) and the tone         *)
(* rewriter of text_processor.py.  Texts are strings; a character is a     *)
(* string of length one.                                                   *)
(***************************************************************************)
EXTENDS Bags, FiniteSets, Integers, Sequences, TLC

VARIABLES
    content,        \* rows of table content (committed)
    search_index,   \* rows of table search_index (committed), a bag
    seq,            \* sqlite_sequence of content: largest id ever assigned
    now,            \* the clock, in ticks
    last,           \* the call made last and what it returned
    before,         \* the store as it was when that call was made
    conns,          \* the connection of each concurrent caller
    settings        \* the configuration the text processor was built with

vars == <<content, search_index, seq, now, last, before, conns, settings>>

(***************************************************************************)
(* Bounds of the model.                                                    *)
(***************************************************************************)
MaxId == 3
MaxCallers == 2
MaxTicks == 3
TicksPerDay == 2
MaxAudio == 1

(***************************************************************************)
(* The inputs the calls are made with.                                     *)
(***************************************************************************)
Paths == {"temp/audio/a.mp3", "temp/audio/b.mp3"}
OriginalTexts == {"Cat cat ox", "Dog, cat!"}
RewrittenTexts == {"", "the DOG"}

StoreArgs ==
    [title : {"Cat cat ox"}, original_text : OriginalTexts,
     rewritten_text : RewrittenTexts, tone : {"Neutral"}, voice : {"Lisa"},
     audio_path : Paths, word_count : {3}, duration_minutes : {1}]

StoreQueries == {"", "cat", "ox", "The dog"}

\* the searches with filters
SearchArgs ==
    [title : {"Cat cat ox"}, original_text : OriginalTexts,
     rewritten_text : {""}, tone : {"Neutral", "Suspenseful"}, voice : {"Lisa"},
     audio_path : Paths, word_count : {3}, duration_minutes : {1}]

SearchQueries == {"", "cat", "https://en.wikipedia.org/wiki/Cat_dog"}
Limits == {1, 10}

\* (tone_filter, voice_filter, date_filter); "" is no filter
SearchFilters ==
    {<<"", "", "">>, <<"Neutral", "", "">>, <<"", "Michael", "">>,
     <<"", "", "today">>, <<"", "", "week">>, <<"Neutral", "Lisa", "week">>}

\* every text some call indexes and every query some call searches for
IndexedTexts == {o \o " " \o r : o \in OriginalTexts, r \in RewrittenTexts}
PreviewedTexts == OriginalTexts \cup RewrittenTexts
Queries == StoreQueries \cup SearchQueries

(***************************************************************************)
(* Strings.                                                                *)
(***************************************************************************)
Ch(s, i) == SubSeq(s, i, i)

Min(a, b) == IF a < b THEN a ELSE b

\* the entry of a table worked out beforehand, the value itself for a key
\* the table does not hold
Memo(table, key, value) == IF key \in DOMAIN table THEN table[key] ELSE value

LowerOf ==
    ("A" :> "a") @@ ("B" :> "b") @@ ("C" :> "c") @@ ("D" :> "d") @@
    ("E" :> "e") @@ ("F" :> "f") @@ ("G" :> "g") @@ ("H" :> "h") @@
    ("I" :> "i") @@ ("J" :> "j") @@ ("K" :> "k") @@ ("L" :> "l") @@
    ("M" :> "m") @@ ("N" :> "n") @@ ("O" :> "o") @@ ("P" :> "p") @@
    ("Q" :> "q") @@ ("R" :> "r") @@ ("S" :> "s") @@ ("T" :> "t") @@
    ("U" :> "u") @@ ("V" :> "v") @@ ("W" :> "w") @@ ("X" :> "x") @@
    ("Y" :> "y") @@ ("Z" :> "z")

\* the characters \w matches
WordChars ==
    {Ch("ABCDEFGHIJKLMNOPQRSTUVWXYZabcdefghijklmnopqrstuvwxyz0123456789_", i)
        : i \in 1..63}

\* the characters \s matches and str.strip() removes
Whitespace == {" ", "\t", "\n", "\r"}

\* str.lower(), a half of the string at a time
RECURSIVE lower(_)
lower(s) ==
    IF s = "" THEN ""
    ELSE IF Len(s) = 1 THEN (LowerOf @@ (s :> s))[s]
    ELSE lower(SubSeq(s, 1, Len(s) \div 2)) \o lower(SubSeq(s, Len(s) \div 2 + 1, Len(s)))

\* str.lstrip(): from the first character that is not whitespace on
lstrip(s) ==
    IF \A i \in 1..Len(s) : Ch(s, i) \in Whitespace THEN ""
    ELSE SubSeq(s, CHOOSE i \in 1..Len(s) :
                       /\ Ch(s, i) \notin Whitespace
                       /\ \A j \in 1..(i - 1) : Ch(s, j) \in Whitespace,
                Len(s))

\* str.rstrip(): without the k characters of whitespace at the end
rstrip(s) ==
    IF \A i \in 1..Len(s) : Ch(s, i) \in Whitespace THEN ""
    ELSE SubSeq(s, 1, Len(s) - CHOOSE k \in 0..(Len(s) - 1) :
                                   /\ Ch(s, Len(s) - k) \notin Whitespace
                                   /\ \A j \in (Len(s) - k + 1)..Len(s) :
                                          Ch(s, j) \in Whitespace)

strip(s) == rstrip(lstrip(s))

startswith(s, p) == Len(p) <= Len(s) /\ SubSeq(s, 1, Len(p)) = p

endswith(s, p) == Len(p) <= Len(s) /\ SubSeq(s, Len(s) - Len(p) + 1, Len(s)) = p

\* str.split(sep) for a one-character separator: the pieces between
\* the separators, empty pieces included
split(s, sep) ==
    LET at == {i \in 1..Len(s) : Ch(s, i) = sep}
        \* the k-th separator, the ends of the string being separators 0 and last
        cut(k) == IF k = 0 THEN 0
                  ELSE IF k > Cardinality(at) THEN Len(s) + 1
                  ELSE CHOOSE i \in at : Cardinality({j \in at : j < i}) = k - 1
    IN  [k \in 1..(Cardinality(at) + 1) |-> SubSeq(s, cut(k - 1) + 1, cut(k) - 1)]

\* the maximal runs, within the positions lo..hi of s, of the characters
\* that are in chars (inside) or not in chars (not inside), a half of the
\* range at a time
RECURSIVE Runs(_, _, _, _, _)
Runs(s, chars, inside, lo, hi) ==
    IF lo > hi THEN <<>>
    ELSE IF lo = hi THEN (IF (Ch(s, lo) \in chars) = inside THEN <<Ch(s, lo)>> ELSE <<>>)
    ELSE LET mid == (lo + hi) \div 2
             l == Runs(s, chars, inside, lo, mid)
             r == Runs(s, chars, inside, mid + 1, hi)
         IN  IF (Ch(s, mid) \in chars) = inside /\ (Ch(s, mid + 1) \in chars) = inside
             THEN SubSeq(l, 1, Len(l) - 1) \o <<l[Len(l)] \o r[1]>> \o Tail(r)
             ELSE l \o r

\* str.split(): the maximal runs of non-whitespace characters
words(s) == Runs(s, Whitespace, FALSE, 1, Len(s))

\* sep.join(parts), a half of the parts at a time
RECURSIVE join(_, _)
join(sep, parts) ==
    IF parts = <<>> THEN ""
    ELSE IF Len(parts) = 1 THEN parts[1]
    ELSE LET h == Len(parts) \div 2
         IN  join(sep, SubSeq(parts, 1, h)) \o sep \o join(sep, SubSeq(parts, h + 1, Len(parts)))

\* str.replace(old, new), leftmost non-overlapping occurrences
RECURSIVE replace(_, _, _)
replace(s, old, new) ==
    LET at == {i \in 1..(Len(s) - Len(old) + 1) : SubSeq(s, i, i + Len(old) - 1) = old}
        first == CHOOSE i \in at : \A j \in at : i <= j
    IN  IF at = {} THEN s
        ELSE SubSeq(s, 1, first - 1) \o new
                \o replace(SubSeq(s, first + Len(old), Len(s)), old, new)

\* utils.truncate_text
truncate_text(text, max_words) ==
    LET ws == words(text)
    IN  IF Len(ws) <= max_words THEN text
        ELSE join(" ", SubSeq(ws, 1, max_words)) \o "..."

(***************************************************************************)
(* SearchEngine: tokenization and the token rows of a record.              *)
(***************************************************************************)
\* re.findall(r'\b\w+\b', text): the maximal runs of word characters
tokenize_text(text) == Runs(text, WordChars, TRUE, 1, Len(text))

\* token_freq that records each token once, whatever its occurrences
token_freq_Presence(text) ==
    LET tokens == tokenize_text(lower(text))
        kept == {tokens[i] : i \in {j \in 1..Len(tokens) : Len(tokens[j]) > 2}}
    IN  [t \in kept |-> 1]

\* _index_text_content: the count of every token longer than 2 characters
TokenCounts(tokens) ==
    [t \in {tokens[i] : i \in {j \in 1..Len(tokens) : Len(tokens[j]) > 2}} |->
        Cardinality({i \in 1..Len(tokens) : tokens[i] = t})]

\* the token_freq dictionary of _index_text_content
token_freq(text) == TokenCounts(tokenize_text(lower(text)))

\* the rows _index_text_content inserts, one per key of token_freq
index_text_content(content_id, text) ==
    LET tf == token_freq(text)
    IN  SetToBag({[content_id |-> content_id, token |-> t, frequency |-> tf[t]]
                  : t \in DOMAIN tf})

(***************************************************************************)
(* TextAnalyzer: sentences and words.                                      *)
(***************************************************************************)
SentenceEnds == {".", "!", "?"}

\* re.split(r'(?<=[.!?])\s+', text): the text is cut at every run of
\* whitespace that follows a sentence end, the run being dropped
SentencePieces(text) ==
    LET starts == {i \in 2..Len(text) :
                      Ch(text, i) \in Whitespace /\ Ch(text, i - 1) \in SentenceEnds}
        \* the first position after the run of whitespace that starts at i
        after(i) ==
            LET inked == {j \in i..Len(text) : Ch(text, j) \notin Whitespace}
            IN  IF inked = {} THEN Len(text) + 1
                ELSE CHOOSE j \in inked : \A k \in inked : j <= k
        start(k) == CHOOSE i \in starts : Cardinality({j \in starts : j < i}) = k - 1
        n == Cardinality(starts)
    IN  [k \in 1..(n + 1) |->
            SubSeq(text,
                   IF k = 1 THEN 1 ELSE after(start(k - 1)),
                   IF k = n + 1 THEN Len(text) ELSE start(k) - 1)]

\* TextAnalyzer._simple_sent_tokenize
simple_sent_tokenize(text) ==
    LET kept == SelectSeq(SentencePieces(text), LAMBDA s : strip(s) # "")
    IN  [i \in 1..Len(kept) |-> strip(kept[i])]

\* the sentence count analyze_text reports by that rule
sentence_count(text) == Len(simple_sent_tokenize(text))

\* the fallback stop words of _get_stopwords
stop_words ==
    {"i", "me", "my", "myself", "we", "our", "ours", "ourselves", "you",
     "your", "yours", "yourself", "yourselves", "he", "him", "his",
     "himself", "she", "her", "hers", "herself", "it", "its", "itself",
     "they", "them", "their", "theirs", "themselves", "what", "which",
     "who", "whom", "this", "that", "these", "those", "am", "is", "are",
     "was", "were", "be", "been", "being", "have", "has", "had", "having",
     "do", "does", "did", "doing", "a", "an", "the", "and", "but", "if",
     "or", "because", "as", "until", "while", "of", "at", "by", "for",
     "with", "about", "against", "between", "into", "through", "during",
     "before", "after", "above", "below", "to", "from", "up", "down", "in",
     "out", "on", "off", "over", "under", "again", "further", "then",
     "once", "here", "there", "when", "where", "why", "how", "all", "any",
     "both", "each", "few", "more", "most", "other", "some", "such", "no",
     "nor", "not", "only", "own", "same", "so", "than", "too", "very",
     "can", "will", "just", "should", "now"}

\* Counter(filtered_words).most_common(5): the words of the text that are no
\* stop words and longer than 2, with their counts, the most frequent first
\* and words of equal count in the order of their first occurrence
most_common(tokens) ==
    LET kept(i) == tokens[i] \notin stop_words /\ Len(tokens[i]) > 2
        firsts == {i \in 1..Len(tokens) :
                      kept(i) /\ \A j \in 1..(i - 1) : tokens[j] # tokens[i]}
        count(i) == Cardinality({j \in 1..Len(tokens) : tokens[j] = tokens[i]})
        ahead(i) == {j \in firsts : count(j) > count(i) \/ (count(j) = count(i) /\ j < i)}
        nth(k) == CHOOSE i \in firsts : Cardinality(ahead(i)) = k - 1
    IN  [k \in 1..Min(5, Cardinality(firsts)) |-> <<tokens[nth(k)], count(nth(k))>>]

\* analyze_text: the common words of the words of the text in lower case
common_words(text) == most_common(tokenize_text(lower(text)))

\* round(word_count / 200, 1) in tenths of a minute
reading_time_minutes(word_count) == (word_count + 10) \div 20

\* TextAnalyzer.analyze_text, NLTK not being installed
analyze_text(text) ==
    [char_count |-> Len(text),
     word_count |-> Len(words(text)),
     sentence_count |-> sentence_count(text),
     common_words |-> common_words(text),
     reading_time_minutes |-> reading_time_minutes(Len(words(text))),
     nltk_available |-> FALSE]

\* key_sentences that fills the room with the sentences in between as they come
key_sentences_Unsorted(sentences, max_sentences) ==
    LET n == Len(sentences)
        ends == IF n > 1 THEN <<sentences[1], sentences[n]>> ELSE <<sentences[1]>>
        room == max_sentences - Len(ends)
    IN  IF n > 2 /\ room > 0 THEN ends \o SubSeq(sentences, 2, 1 + Min(room, n - 2))
        ELSE ends

\* shorten_text: the first sentence, the last and, while there is room, the
\* longest of the others, sentences of equal length in their order
key_sentences(sentences, max_sentences) ==
    LET n == Len(sentences)
        middle == [i \in 1..(n - 2) |-> sentences[i + 1]]
        ahead(i) == {j \in 1..(n - 2) :
                        \/ Len(middle[j]) > Len(middle[i])
                        \/ Len(middle[j]) = Len(middle[i]) /\ j < i}
        sorted == [k \in 1..(n - 2) |->
                      middle[CHOOSE i \in 1..(n - 2) : Cardinality(ahead(i)) = k - 1]]
        ends == IF n > 1 THEN <<sentences[1], sentences[n]>> ELSE <<sentences[1]>>
        room == max_sentences - Len(ends)
    IN  IF n > 2 /\ room > 0 THEN ends \o SubSeq(sorted, 1, Min(room, n - 2))
        ELSE ends

\* shorten_text: the joined sentences, cut to max_words when they are more
CutToWords(shortened_text, ws, max_words) ==
    IF Len(ws) > max_words THEN join(" ", SubSeq(ws, 1, max_words)) \o "..."
    ELSE shortened_text

\* shorten_text on a text and its sentences
ShortenSentences(text, sentences, max_sentences, max_words) ==
    IF strip(text) = "" THEN text
    ELSE IF Len(sentences) <= max_sentences THEN text
    ELSE CutToWords(join(" ", key_sentences(sentences, max_sentences)),
                    words(join(" ", key_sentences(sentences, max_sentences))),
                    max_words)

\* shorten_text that cuts every text down to max_words
shorten_text_AlwaysCut(text, max_sentences, max_words) ==
    truncate_text(text, max_words)

\* TextAnalyzer.shorten_text: a blank text and a text of at most
\* max_sentences sentences as they are; else the first sentence, the last
\* and the longest of the others up to max_sentences, cut to max_words
shorten_text(text, max_sentences, max_words) ==
    ShortenSentences(text, simple_sent_tokenize(text), max_sentences, max_words)

\* is_text_too_long with the boundary counted in
is_text_too_long_AtLeast(text, max_words) == Len(words(text)) >= max_words

\* TextAnalyzer.is_text_too_long
is_text_too_long(text, max_words) == Len(words(text)) > max_words

\* the defaults of shorten_text and of is_text_too_long
shorten_max_sentences == 3
shorten_max_words == 100
too_long_max_words == 150

\* s * n, a half of the copies at a time
RECURSIVE Repeat(_, _)
Repeat(s, n) ==
    IF n <= 0 THEN ""
    ELSE IF n = 1 THEN s
    ELSE Repeat(s, n \div 2) \o Repeat(s, n - n \div 2)

\* the texts, sentence limits and word limits the analyzer is called with
AnalyzedTexts ==
    {"", " \n", "Hi.", "One. Two. Three.", "One. Two. Three. Four.",
     "aaa. bb. cccc. dd. eeee. f.", "Stop! Go.  Run now?  Yes",
     Repeat("word ", 149), Repeat("word ", 150), Repeat("word ", 151),
     Repeat("Go now! ", 76),
     "Hi. " \o Repeat("word ", 101) \o "end. Ok. Bye.",
     Repeat(Repeat("word ", 60) \o "end. ", 3)}
SentenceLimits == {1, 2, shorten_max_sentences}
WordLimits == {2, 3, shorten_max_words, too_long_max_words}

\* shorten_text and is_text_too_long, worked out once for those
ShortenedTable ==
    [x \in AnalyzedTexts \X SentenceLimits \X WordLimits |->
        shorten_text(x[1], x[2], x[3])] @@ <<>>

TooLongTable ==
    [x \in AnalyzedTexts \X WordLimits |-> is_text_too_long(x[1], x[2])] @@ <<>>

Shortened(text, max_sentences, max_words) ==
    Memo(ShortenedTable, <<text, max_sentences, max_words>>,
         shorten_text(text, max_sentences, max_words))

TooLong(text, max_words) ==
    Memo(TooLongTable, <<text, max_words>>, is_text_too_long(text, max_words))

\* the texts generate_audio is called with, and every text it speaks
AudioTexts == {"Hi.", Repeat("Go now! ", 76)}

\* the texts of the requests made one after another: those, and a long text
\* of three sentences
RepeatedTexts == AudioTexts \cup {Repeat(Repeat("word ", 60) \o "end. ", 3)}

SpokenTexts ==
    RepeatedTexts
        \cup {shorten_text(t, shorten_max_sentences, shorten_max_words) : t \in RepeatedTexts}

(***************************************************************************)
(* SearchEngine: the store and the statements a connection executes.       *)
(* A connection works on its own copy of the store from its first write    *)
(* (sqlite3 opens the transaction there) until commit; close() without     *)
(* commit rolls the copy back.                                             *)
(***************************************************************************)
NoRow == 0      \* fetchone() returned None; ids start at 1

Store == [content |-> content, search_index |-> search_index, seq |-> seq]

\* SELECT id FROM content WHERE audio_path = ?  (audio_path is UNIQUE)
SelectIdByPath(db, audio_path) ==
    LET ids == {r.id : r \in {x \in db.content : x.audio_path = audio_path}}
    IN  IF ids = {} THEN NoRow ELSE CHOOSE i \in ids : TRUE

\* UPDATE content SET ..., created_at = CURRENT_TIMESTAMP WHERE audio_path = ?
UpdateContent(db, a, t) ==
    [db EXCEPT !.content =
        {IF r.audio_path = a.audio_path
         THEN [id |-> r.id, created_at |-> t] @@ a ELSE r : r \in @}]

\* the id AUTOINCREMENT gives the next inserted row
NextRowId(db) ==
    LET used == {r.id : r \in db.content} \cup {db.seq}
    IN  1 + CHOOSE m \in used : \A i \in used : i <= m

\* INSERT INTO content (...) VALUES (...); raises on a duplicate audio_path
InsertAllowed(db, a) == \A r \in db.content : r.audio_path # a.audio_path

InsertContent(db, a, t) ==
    LET id == NextRowId(db)
    IN  [db EXCEPT !.content = @ \cup {[id |-> id, created_at |-> t] @@ a},
                   !.seq = id]

\* the DELETE left out
DeleteIndexRows_Keep(db, content_id) == db

\* DELETE FROM search_index WHERE content_id = ?
DeleteIndexRows(db, content_id) ==
    LET keep == {x \in DOMAIN db.search_index : x.content_id # content_id}
    IN  [db EXCEPT !.search_index = [x \in keep |-> db.search_index[x]]]

\* INSERT INTO search_index (content_id, token, frequency) VALUES (?, ?, ?)
InsertIndexRow(db, content_id, token, frequency) ==
    [db EXCEPT !.search_index = @ (+) SetToBag(
        {[content_id |-> content_id, token |-> token, frequency |-> frequency]})]

DeleteContentRow_UpTo(db, content_id) ==
    [db EXCEPT !.content = {r \in @ : r.id > content_id}]

\* DELETE FROM content WHERE id = ?
DeleteContentRow(db, content_id) ==
    [db EXCEPT !.content = {r \in @ : r.id # content_id}]

\* the tokens longer than 2 characters, each once, in the order of their
\* first occurrence
FirstOccurrences(tokens) ==
    LET firsts == {i \in 1..Len(tokens) :
                      Len(tokens[i]) > 2 /\ \A j \in 1..(i - 1) : tokens[j] # tokens[i]}
        nth(k) == CHOOSE i \in firsts : Cardinality({j \in firsts : j < i}) = k - 1
    IN  [k \in 1..Cardinality(firsts) |-> tokens[nth(k)]]

\* the keys of token_freq in dictionary (first occurrence) order
token_order(text) == FirstOccurrences(tokenize_text(lower(text)))

\* one INSERT for every key of token_freq, in the order of the keys
InsertStmts(order, tf) ==
    [i \in 1..Len(order) |->
        [op |-> "insert_token", token |-> order[i], frequency |-> tf[order[i]]]]

\* the INSERT statements of _index_text_content, in order
TokenStmtsOf(text) == InsertStmts(token_order(text), token_freq(text))

\* the same, computed once for the texts of the inputs
TokenStmtsTable ==
    [text \in IndexedTexts \cup {t \o " " \o p : t \in RepeatedTexts, p \in SpokenTexts} |->
        TokenStmtsOf(text)] @@ <<>>

TokenStmts(text) == Memo(TokenStmtsTable, text, TokenStmtsOf(text))

\* the statements of index_content after the existence SELECT, in order
IndexProgram(existing, a) ==
    (IF existing # NoRow
     THEN <<[op |-> "update", token |-> "", frequency |-> 0],
            [op |-> "delete_index", token |-> "", frequency |-> 0]>>
     ELSE <<[op |-> "insert", token |-> "", frequency |-> 0]>>)
    \o TokenStmts(a.original_text \o " " \o a.rewritten_text)
    \o <<[op |-> "commit", token |-> "", frequency |-> 0]>>

\* the statements of delete_content, in order
DeleteProgram ==
    <<[op |-> "delete_index", token |-> "", frequency |-> 0],
      [op |-> "delete_content", token |-> "", frequency |-> 0],
      [op |-> "commit", token |-> "", frequency |-> 0]>>

\* a statement that raises instead of taking effect
Raises(st, c, a) == st.op = "insert" /\ ~InsertAllowed(c.db, a)

\* one statement of index_content on connection state c
ExecIndexStmt(st, c, a, t) ==
    CASE st.op = "update" ->
            [c EXCEPT !.db = UpdateContent(c.db, a, t), !.content_id = c.existing]
      [] st.op = "delete_index" ->
            [c EXCEPT !.db = DeleteIndexRows(c.db, c.content_id)]
      [] st.op = "insert" ->
            [c EXCEPT !.db = InsertContent(c.db, a, t),
                      !.content_id = NextRowId(c.db)]
      [] st.op = "insert_token" ->
            [c EXCEPT !.db = InsertIndexRow(c.db, c.content_id, st.token, st.frequency)]
      [] st.op = "delete_content" ->
            [c EXCEPT !.db = DeleteContentRow(c.db, c.content_id)]
      [] OTHER -> c

RECURSIVE RunIndexStmts(_, _, _, _, _)
RunIndexStmts(prog, n, c, a, t) ==
    IF n = 0 THEN c
    ELSE ExecIndexStmt(prog[n], RunIndexStmts(prog, n - 1, c, a, t), a, t)

\* a close() that keeps the uncommitted writes
CloseConnection_NoRollback(committed, working, didCommit) == working

\* conn.close(): what the store holds afterwards
CloseConnection(committed, working, didCommit) ==
    IF didCommit THEN working ELSE committed

(***************************************************************************)
(* SearchEngine: query preprocessing and the SELECT of search_content.     *)
(***************************************************************************)
\* least index of a character of cs in s, Len(s) + 1 when there is none
FirstIndexOf(s, cs) ==
    LET hits == {i \in 1..Len(s) : Ch(s, i) \in cs}
    IN  IF hits = {} THEN Len(s) + 1 ELSE CHOOSE i \in hits : \A j \in hits : i <= j

\* greatest index of a character of cs in s, 0 when there is none
LastIndexOf(s, cs) ==
    LET hits == {i \in 1..Len(s) : Ch(s, i) \in cs}
    IN  IF hits = {} THEN 0 ELSE CHOOSE i \in hits : \A j \in hits : j <= i

\* re.match(r'https?://[^\s]+', query)
LooksLikeUrl(query) ==
    \E scheme \in {"http://", "https://"} :
        /\ startswith(query, scheme)
        /\ Len(query) > Len(scheme)
        /\ Ch(query, Len(scheme) + 1) \notin Whitespace

\* urllib.parse.urlparse(query).path for an http(s) URL
\* s from its first character of cs on, and s before its first character of cs
FromFirst(s, cs) == SubSeq(s, FirstIndexOf(s, cs), Len(s))

BeforeFirst(s, cs) == SubSeq(s, 1, FirstIndexOf(s, cs) - 1)

\* the path without the parameters (;...) of its last segment
WithoutParams(path, lastSlash) ==
    SubSeq(path, 1, lastSlash
                    + FirstIndexOf(SubSeq(path, lastSlash + 1, Len(path)), {";"}) - 1)

PathOfUrl(noQuery) == WithoutParams(noQuery, LastIndexOf(noQuery, {"/"}))

\* what follows scheme://, from the path on, without fragment, query and
\* parameters
UrlPath(query) ==
    PathOfUrl(
        BeforeFirst(
            BeforeFirst(
                FromFirst(SubSeq(query, FirstIndexOf(query, {":"}) + 3, Len(query)),
                          {"/", "?", "#"}),
                {"#"}),
            {"?"}))

BoilerplateSegments == {"wiki", "wikipedia", "page", "article"}

\* the last path segment that is neither empty nor boilerplate, <<>> if none
RECURSIVE LastMeaningful(_)
LastMeaningful(parts) ==
    IF parts = <<>> THEN <<>>
    ELSE LET part == parts[Len(parts)]
         IN  IF part # "" /\ part \notin BoilerplateSegments THEN <<part>>
             ELSE LastMeaningful(SubSeq(parts, 1, Len(parts) - 1))

KeywordsOf_Underscores(query, found) ==
    IF found = <<>> THEN query ELSE replace(found[1], "_", " ")

\* the segment found with _, - and %20 turned into spaces, the query when
\* none was found
KeywordsOf(query, found) ==
    IF found = <<>> THEN query
    ELSE replace(replace(replace(found[1], "_", " "), "-", " "), "%20", " ")

extract_keywords_from_url(query) ==
    IF LooksLikeUrl(query)
    THEN KeywordsOf(query, LastMeaningful(split(UrlPath(query), "/")))
    ELSE query

\* a filter argument that is None or empty adds no clause
NoFilter == ""

Day(t) == t \div TicksPerDay

\* _get_date_filter_condition: the day windows of the known filters
DateWindowDays == [week |-> 7, month |-> 30, year |-> 365]

\* the date condition: created_at is 'YYYY-MM-DD HH:MM:SS', DATE(...) is
\* 'YYYY-MM-DD', compared as strings, so only the days are compared
InDateWindow(r, f, t) ==
    CASE f = "today" -> Day(r.created_at) = Day(t)
      [] f \in DOMAIN DateWindowDays ->
            Day(r.created_at) >= Day(t) - DateWindowDays[f]
      [] OTHER -> TRUE

DateCondition(r, date_filter, t) == InDateWindow(r, lower(date_filter), t)

\* the where_clauses list of search_content is not empty
HasWhereClauses(tone_filter, voice_filter, date_filter) ==
    \/ tone_filter # NoFilter
    \/ voice_filter # NoFilter
    \/ (date_filter # NoFilter
        /\ lower(date_filter) \in {"today"} \cup DOMAIN DateWindowDays)

PassesFilters(r, tone_filter, voice_filter, date_filter, t) ==
    /\ tone_filter # NoFilter => r.tone = tone_filter
    /\ voice_filter # NoFilter => r.voice = voice_filter
    /\ date_filter # NoFilter => DateCondition(r, date_filter, t)

RECURSIVE SumFrequency(_, _)
SumFrequency(bag, rows) ==
    IF rows = {} THEN 0
    ELSE LET x == CHOOSE y \in rows : TRUE
         IN  x.frequency * bag[x] + SumFrequency(bag, rows \ {x})

\* COUNT(*) in the place of SUM(si.frequency)
Relevance_CountRows(db, id, tokens) ==
    Cardinality({x \in DOMAIN db.search_index :
                    x.content_id = id /\ x.token \in tokens})

\* SUM(si.frequency) over the joined rows of one record
Relevance(db, id, tokens) ==
    SumFrequency(db.search_index,
        {x \in DOMAIN db.search_index : x.content_id = id /\ x.token \in tokens})

\* truncate_text(text, 150), computed once for the texts of the inputs
PreviewTable == [text \in PreviewedTexts |-> truncate_text(text, 150)] @@ <<>>

Preview(text) == Memo(PreviewTable, text, truncate_text(text, 150))

\* the rows a search returns: formatted, with the preview
FormatRow(r) ==
    r @@ [preview |-> Preview(IF r.original_text # "" THEN r.original_text
                              ELSE r.rewritten_text)]

\* search_tokens of search_content, computed once for the queries of the inputs
SearchTokensOf(query) == tokenize_text(lower(extract_keywords_from_url(query)))

SearchTokensTable == [query \in Queries |-> SearchTokensOf(query)] @@ <<>>

SearchTokens(query) == Memo(SearchTokensTable, query, SearchTokensOf(query))

\* LIMIT ?: a negative limit is no limit
ApplyLimit(rows, limit) ==
    IF limit < 0 THEN rows ELSE SubSeq(rows, 1, Min(limit, Len(rows)))

\* every order of the rows in matched that ORDER BY allows; key[r] is the
\* pair <<relevance, created_at>>, both descending
OrderedBy(matched, key) ==
    LET n == Cardinality(matched)
    IN  {s \in [1..n -> matched] :
            /\ \A i, j \in 1..n : i # j => s[i] # s[j]
            /\ \A i \in 1..n : \A j \in 1..n : i < j =>
                 \/ key[s[i]][1] > key[s[j]][1]
                 \/ /\ key[s[i]][1] = key[s[j]][1]
                    /\ key[s[i]][2] >= key[s[j]][2]}

\* what the SELECT of search_content can do: raise because the statement
\* built does not parse (filters appended with AND to a statement that has
\* no WHERE), or return rows
SqlError == [error |-> TRUE, rows |-> <<>>]

Fetched(rows) == [error |-> FALSE, rows |-> rows]

SelectByTokens(db, search_tokens, tone_filter, voice_filter, date_filter, limit, t) ==
    LET tokens == {search_tokens[i] : i \in 1..Len(search_tokens)}
        filtered == {r \in db.content :
                        PassesFilters(r, tone_filter, voice_filter, date_filter, t)}
        joined == {r \in filtered : \E x \in DOMAIN db.search_index :
                                        x.content_id = r.id /\ x.token \in tokens}
        recent == [r \in db.content |-> <<0, r.created_at>>]
        relevant == [r \in joined |-> <<Relevance(db, r.id, tokens), r.created_at>>]
    IN  IF search_tokens = <<>>
        THEN IF HasWhereClauses(tone_filter, voice_filter, date_filter)
             THEN {SqlError}
             ELSE {Fetched(ApplyLimit([i \in DOMAIN s |-> FormatRow(s[i])], limit))
                   : s \in OrderedBy(db.content, recent)}
        ELSE {Fetched(ApplyLimit([i \in DOMAIN s |-> FormatRow(s[i])], limit))
              : s \in OrderedBy(joined, relevant)}

SearchSelect(db, query, tone_filter, voice_filter, date_filter, limit, t) ==
    SelectByTokens(db, SearchTokens(query), tone_filter, voice_filter, date_filter,
                   limit, t)

(***************************************************************************)
(* SearchEngine: the calls.  fail numbers the statement that raises        *)
(* (0: none, 1: sqlite3.connect, 2: the first execute, ...).               *)
(***************************************************************************)
NoFailure == 0
ConnectFails == 1

\* index_content(title, original_text, rewritten_text, tone, voice,
\*               audio_path, word_count, duration_minutes)
IndexContent(a, fail) ==
    LET existing == SelectIdByPath(Store, a.audio_path)
        prog == IndexProgram(existing, a)
        c0 == [db |-> Store, existing |-> existing, content_id |-> NoRow]
        done == IF fail = NoFailure THEN Len(prog)
                ELSE IF fail <= 2 THEN 0 ELSE fail - 3
        working == RunIndexStmts(prog, done, c0, a, now).db
        after == CloseConnection(Store, working, fail = NoFailure)
    IN  /\ fail <= Len(prog) + 2
        /\ (fail = NoFailure /\ existing = NoRow) => seq < MaxId
        /\ content' = after.content
        /\ search_index' = after.search_index
        /\ seq' = after.seq
        /\ last' = [op |-> "index_content", audio_path |-> a.audio_path,
                    fail |-> fail, done |-> done,
                    existing |-> existing,
                    ret |-> (fail = NoFailure), raised |-> (fail = ConnectFails)]
        /\ before' = Store
        /\ UNCHANGED <<now, conns, settings>>

\* delete_content(content_id)
DeleteContent(content_id, fail) ==
    LET afterIndex == DeleteIndexRows(Store, content_id)
        afterContent == DeleteContentRow(afterIndex, content_id)
        rowcount == Cardinality({r \in afterIndex.content : r.id = content_id})
        done == IF fail = NoFailure THEN 3
                ELSE IF fail <= 2 THEN 0 ELSE fail - 2
        working == CASE done = 0 -> Store
                     [] done = 1 -> afterIndex
                     [] OTHER -> afterContent
        after == CloseConnection(Store, working, fail = NoFailure)
    IN  /\ fail <= 4
        /\ content' = after.content
        /\ search_index' = after.search_index
        /\ seq' = after.seq
        /\ last' = [op |-> "delete_content", content_id |-> content_id,
                    fail |-> fail, done |-> done,
                    ret |-> (fail = NoFailure /\ rowcount > 0),
                    raised |-> (fail = ConnectFails)]
        /\ before' = Store
        /\ UNCHANGED <<now, conns, settings>>

\* search_content(query, tone_filter, voice_filter, date_filter, limit)
SearchContent(query, tone_filter, voice_filter, date_filter, limit, fail) ==
    /\ fail <= 2
    /\ \E fetched \in SearchSelect(Store, query, tone_filter, voice_filter,
                                date_filter, limit, now) :
         last' = [op |-> "search_content", query |-> query,
                  tone_filter |-> tone_filter, voice_filter |-> voice_filter,
                  date_filter |-> date_filter, limit |-> limit, fail |-> fail,
                  ret |-> IF fail # NoFailure \/ fetched.error THEN <<>>
                          ELSE fetched.rows,
                  raised |-> (fail = ConnectFails)]
    /\ before' = Store
    /\ UNCHANGED <<content, search_index, seq, now, conns, settings>>

\* the query preprocessing of search_content: processed_query and search_tokens
ExtractKeywords(query) ==
    /\ last' = [op |-> "extract_keywords_from_url", a |-> [query |-> query],
                ret |-> extract_keywords_from_url(query),
                search_tokens |-> SearchTokensOf(query)]
    /\ UNCHANGED <<content, search_index, seq, now, before, conns, settings>>

\* get_recent_content(limit)
GetRecentContent(limit, fail) ==
    SearchContent("", NoFilter, NoFilter, NoFilter, limit, fail)

\* SELECT ... FROM content WHERE id = ? and fetchone(); None is NoRow
SelectById(db, content_id) ==
    LET found == {r \in db.content : r.id = content_id}
    IN  IF found = {} THEN NoRow ELSE CHOOSE r \in found : TRUE

\* get_content_by_id(content_id)
GetContentById(content_id, fail) ==
    /\ fail <= 2
    /\ last' = [op |-> "get_content_by_id", content_id |-> content_id,
                fail |-> fail,
                ret |-> IF fail # NoFailure THEN NoRow
                        ELSE SelectById(Store, content_id),
                raised |-> (fail = ConnectFails)]
    /\ before' = Store
    /\ UNCHANGED <<content, search_index, seq, now, conns, settings>>

RECURSIVE SumOver(_, _)
SumOver(rows, field) ==
    IF rows = {} THEN 0
    ELSE LET r == CHOOSE x \in rows : TRUE
         IN  r[field] + SumOver(rows \ {r}, field)

ZeroStatistics ==
    [total_content |-> 0, total_words |-> 0, total_duration_minutes |-> 0,
     content_by_tone |-> <<>>, content_by_voice |-> <<>>]

\* get_statistics()
GetStatistics(fail) ==
    LET stats ==
          [total_content |-> Cardinality(content),
           total_words |-> SumOver(content, "word_count"),
           total_duration_minutes |-> SumOver(content, "duration_minutes"),
           content_by_tone |->
              [t \in {r.tone : r \in content} |->
                  Cardinality({r \in content : r.tone = t})],
           content_by_voice |->
              [v \in {r.voice : r \in content} |->
                  Cardinality({r \in content : r.voice = v})]]
    IN  /\ fail <= 6
        /\ last' = [op |-> "get_statistics", fail |-> fail,
                    ret |-> IF fail # NoFailure THEN ZeroStatistics ELSE stats,
                    raised |-> (fail = ConnectFails)]
        /\ before' = Store
        /\ UNCHANGED <<content, search_index, seq, now, conns, settings>>

\* the k-th instant of the clock: a later moment of the same day, then a
\* week later, and so on
Instant(k) == (k \div 2) * 7 * TicksPerDay + (k % 2)

\* time passes
Tick ==
    /\ \E k \in 1..MaxTicks : now = Instant(k - 1) /\ now' = Instant(k)
    /\ last' = [op |-> "tick", raised |-> FALSE]
    /\ before' = Store
    /\ UNCHANGED <<content, search_index, seq, conns, settings>>

(***************************************************************************)
(* TextProcessor: the tones and the simulated rewrite.                     *)
(***************************************************************************)
\* config.AVAILABLE_TONES, in the order of the dictionary
ToneNames == <<"Neutral", "Suspenseful", "Inspiring">>

AVAILABLE_TONES ==
    [Neutral |-> [prompt |->
        "Rewrite the following text in a neutral, clear, and educational tone while maintaining all key information and meaning: "],
     Suspenseful |-> [prompt |->
        "Rewrite the following text with a suspenseful, dramatic tone that builds tension and engages the reader while preserving the original meaning: "],
     Inspiring |-> [prompt |->
        "Rewrite the following text with a inspiring, motivational tone that uplifts and encourages while maintaining the original message: "]]

\* the sentences a tone transformation works on: the pieces between the
\* full stops that are not blank
ToneSentences(text) == SelectSeq(split(text, "."), LAMBDA s : strip(s) # "")

apply_neutral_tone(text) ==
    LET sentences == ToneSentences(text)
        formal(c) ==
            IF Len(c) > 10 THEN "It is important to understand that " \o lower(c)
            ELSE c
        closed(c) ==
            IF endswith(c, ".") \/ endswith(c, "!") \/ endswith(c, "?") THEN c
            ELSE c \o "."
    IN  join(" ", [i \in 1..Len(sentences) |-> closed(formal(strip(sentences[i])))])

apply_suspenseful_tone(text) ==
    LET sentences == ToneSentences(text)
        dramatic(c) ==
            IF Len(c) > 15 THEN "In the shadows of uncertainty, " \o lower(c)
            ELSE c
    IN  join(" ", [i \in 1..Len(sentences) |->
            dramatic(strip(sentences[i])) \o "... but what lies ahead remains a mystery."])

\* the inspiring transformation without its closing words
apply_inspiring_tone_Bare(text) ==
    LET sentences == ToneSentences(text)
    IN  join(". ", [i \in 1..Len(sentences) |-> strip(sentences[i])]) \o "."

apply_inspiring_tone(text) ==
    LET sentences == ToneSentences(text)
        motivational(c) ==
            IF Len(c) > 12 THEN "Believe in the power of " \o lower(c)
            ELSE c
    IN  join(" ", [i \in 1..Len(sentences) |->
            motivational(strip(sentences[i])) \o "! This is your moment to shine."])

\* _simulate_ai_response: the text and the tone are read back from the
\* prompt, by the first tone whose prompt it starts with
simulate_ai_response(prompt) ==
    LET matching == {i \in 1..Len(ToneNames) :
                        startswith(prompt, AVAILABLE_TONES[ToneNames[i]].prompt)}
        first == CHOOSE i \in matching : \A j \in matching : i <= j
        original_text ==
            IF matching = {} THEN prompt
            ELSE strip(SubSeq(prompt, Len(AVAILABLE_TONES[ToneNames[first]].prompt) + 1,
                              Len(prompt)))
        tone == IF matching = {} THEN "neutral" ELSE lower(ToneNames[first])
    IN  IF tone = "suspenseful" THEN apply_suspenseful_tone(original_text)
        ELSE IF tone = "inspiring" THEN apply_inspiring_tone(original_text)
        ELSE apply_neutral_tone(original_text)

\* what a service call hands back to rewrite_text: a text, None, or an
\* exception
Generated(text) == [kind |-> "text", text |-> text]
None == [kind |-> "none", text |-> ""]
Raised == [kind |-> "raise", text |-> ""]

\* rewrite_text from the service's answer on: the clean-up of a non-empty
\* answer, the original text for an empty one, for None and for an exception
CleanedUp(rewritten_text) ==
    LET unlabelled == strip(replace(rewritten_text, "Original text:", ""))
    IN  IF startswith(unlabelled, "Rewritten text:")
        THEN strip(replace(unlabelled, "Rewritten text:", ""))
        ELSE unlabelled

RewriteResultOf(answer, original_text) ==
    IF answer.kind = "text" /\ answer.text # ""
    THEN (IF CleanedUp(answer.text) # "" THEN CleanedUp(answer.text) ELSE original_text)
    ELSE original_text

(***************************************************************************)
(* TextProcessor: the calls.  A call that reaches the service stays in     *)
(* flight (pc = "request") from one attempt to the next; every other call  *)
(* returns or raises at once.                                              *)
(***************************************************************************)
max_retries == 3

RewriteTexts == {"", ".", "Hi.", "Stop! Go.", "The storm is near. Run"}
RewriteTones == {"Neutral", "Suspenseful", "Inspiring", "neutral"}
ProcessTexts == {".", "Hi."}
Languages == {"English"}

\* what the service answers to one attempt
ServiceTexts == {"", "Original text:", "Rewritten text: Calm seas. "}
Outcomes ==
    {[kind |-> k, text |-> ""] : k \in {"exception", "status", "empty_list", "null_item"}}
        \cup {[kind |-> "generated", text |-> t] : t \in ServiceTexts}

RECURSIVE Pow2(_)
Pow2(n) == IF n = 0 THEN 1 ELSE 2 * Pow2(n - 1)

\* config.py: AI_SERVICE and the credentials read from the environment
DefaultSettings == [AI_SERVICE |-> "huggingface", api_key |-> "", project_id |-> ""]
Services == {"ibm", "huggingface"}
ApiKeys == {"", "key"}
ProjectIds == {"", "project"}

\* the guards of _make_ibm_request and _make_huggingface_request that send
\* the prompt to the simulation (api_url always has its default)
Configured ==
    IF settings.AI_SERVICE = "ibm"
    THEN settings.api_key # "" /\ settings.project_id # ""
    ELSE settings.api_key # ""

Prompt(a) == AVAILABLE_TONES[a.tone].prompt \o a.text

\* rewrite_text when the prompt goes to the simulation
SimulatedRewriteOf(a) ==
    RewriteResultOf(Generated(simulate_ai_response(Prompt(a))), a.text)

\* rewrite_text when the service answers 200 with a generated text
GeneratedRewriteOf(text, original_text) ==
    RewriteResultOf(Generated(strip(text)), original_text)

\* both, worked out once for the inputs of the calls
SimulatedRewriteTable ==
    [a \in [text : RewriteTexts, tone : DOMAIN AVAILABLE_TONES] |->
        SimulatedRewriteOf(a)] @@ <<>>

GeneratedRewriteTable ==
    [x \in ServiceTexts \X RewriteTexts |-> GeneratedRewriteOf(x[1], x[2])] @@ <<>>

SimulatedRewrite(a) ==
    LET key == [text |-> a.text, tone |-> a.tone]
    IN  IF key \in DOMAIN SimulatedRewriteTable THEN SimulatedRewriteTable[key]
        ELSE SimulatedRewriteOf(a)

GeneratedRewrite(text, original_text) ==
    IF <<text, original_text>> \in DOMAIN GeneratedRewriteTable
    THEN GeneratedRewriteTable[<<text, original_text>>]
    ELSE GeneratedRewriteOf(text, original_text)

Event(e, n) == [e |-> e, n |-> n]

InFlight == last.op \in {"rewrite_text", "process_text"} /\ last.pc = "request"

\* the narrator's call is on its way to the service
PodcastInFlight == last.op = "generate_podcast_script" /\ last.pc = "request"

\* some call has not come back yet: no other can be made
Busy == InFlight \/ PodcastInFlight

\* process_text that leaves the text out when rewriting raised
process_text_DropOnError(a, raised, rewritten_text) ==
    [success |-> ~raised, rewritten_text |-> IF raised THEN "" ELSE rewritten_text,
     original_text |-> a.text, tone |-> a.tone, language |-> a.language]

\* process_text around the rewrite_text it calls
process_text(a, raised, rewritten_text) ==
    IF raised
    THEN [success |-> FALSE, error |-> "Invalid tone", rewritten_text |-> a.text,
          original_text |-> a.text, tone |-> a.tone, language |-> a.language]
    ELSE [success |-> TRUE, rewritten_text |-> rewritten_text,
          original_text |-> a.text, tone |-> a.tone, language |-> a.language]

\* a call on its way to the service
Requesting(op, a) ==
    [op |-> op, a |-> a, attempt |-> 0, events |-> <<Event("prompt", 0)>>,
     pc |-> "request", rewrite |-> [raised |-> FALSE, text |-> ""], ret |-> ""]

\* the call comes back to its caller: rewrite_text returns a text or raises,
\* process_text returns its dictionary either way
Returns(op, a, events, raised, rewritten_text) ==
    [op |-> op, a |-> a, attempt |-> 0, events |-> events,
     pc |-> IF raised /\ op = "rewrite_text" THEN "raised" ELSE "returned",
     rewrite |-> [raised |-> raised, text |-> rewritten_text],
     ret |-> IF op = "process_text" THEN process_text(a, raised, rewritten_text)
             ELSE rewritten_text]

\* rewrite_text accepting any tone: an unknown one is rewritten as Neutral
Call_SubstituteTone(op, a) ==
    /\ ~Busy
    /\ IF ~Configured \/ a.tone \notin DOMAIN AVAILABLE_TONES
       THEN LET tone == IF a.tone \in DOMAIN AVAILABLE_TONES THEN a.tone ELSE "Neutral"
                prompt == AVAILABLE_TONES[tone].prompt \o a.text
            IN  last' = Returns(op, a, <<Event("prompt", 0), Event("simulate", 0)>>, FALSE,
                                RewriteResultOf(Generated(simulate_ai_response(prompt)),
                                                a.text))
       ELSE last' = Requesting(op, a)
    /\ UNCHANGED <<content, search_index, seq, now, before, conns, settings>>

\* rewrite_text, called by itself or by process_text, up to its first
\* attempt on the service
Call(op, a) ==
    /\ ~Busy
    /\ IF a.tone \notin DOMAIN AVAILABLE_TONES
       THEN last' = Returns(op, a, <<>>, TRUE, "")
       ELSE IF ~Configured
       THEN last' = Returns(op, a, <<Event("prompt", 0), Event("simulate", 0)>>, FALSE,
                            SimulatedRewrite(a))
       ELSE last' = Requesting(op, a)
    /\ UNCHANGED <<content, search_index, seq, now, before, conns, settings>>

RewriteText(original_text, tone) ==
    Call("rewrite_text", [text |-> original_text, tone |-> tone])

ProcessText(text, tone, language, auto_shorten) ==
    Call("process_text", [text |-> text, tone |-> tone, language |-> language,
                          auto_shorten |-> auto_shorten])

\* one pass of the retry loop of _make_ibm_request: the call returns on a
\* 200, goes round again on another status or a RequestException (sleeping
\* after the exception when attempts remain), and returns None after the
\* last attempt; a payload without results raises out of the loop
IbmAttempt(l, outcome) ==
    LET posted == l.events \o <<Event("post", l.attempt), Event(outcome.kind, l.attempt)>>
        slept == IF outcome.kind = "exception" /\ l.attempt < max_retries - 1
                 THEN Append(posted, Event("sleep", Pow2(l.attempt)))
                 ELSE posted
    IN  CASE outcome.kind = "generated" ->
                Returns(l.op, l.a, posted, FALSE,
                        GeneratedRewrite(outcome.text, l.a.text))
          [] outcome.kind \in {"empty_list", "null_item"} ->
                Returns(l.op, l.a, posted, FALSE, RewriteResultOf(Raised, l.a.text))
          [] OTHER ->
                IF l.attempt + 1 < max_retries
                THEN [l EXCEPT !.attempt = @ + 1, !.events = slept]
                ELSE Returns(l.op, l.a, slept, FALSE, RewriteResultOf(None, l.a.text))

\* one pass of the retry loop of _make_huggingface_request: a status other
\* than 200 returns the simulation at once, an empty list goes round again,
\* and the simulation is returned after the last attempt
HuggingfaceAttempt(l, outcome) ==
    LET posted == l.events \o <<Event("post", l.attempt), Event(outcome.kind, l.attempt)>>
        slept == IF outcome.kind = "exception" /\ l.attempt < max_retries - 1
                 THEN Append(posted, Event("sleep", Pow2(l.attempt)))
                 ELSE posted
        simulation == SimulatedRewrite(l.a)
    IN  CASE outcome.kind = "generated" ->
                Returns(l.op, l.a, posted, FALSE,
                        GeneratedRewrite(outcome.text, l.a.text))
          [] outcome.kind = "null_item" ->
                Returns(l.op, l.a, posted, FALSE, RewriteResultOf(Raised, l.a.text))
          [] outcome.kind = "status" ->
                Returns(l.op, l.a, Append(posted, Event("simulate", 0)), FALSE, simulation)
          [] OTHER ->
                IF l.attempt + 1 < max_retries
                THEN [l EXCEPT !.attempt = @ + 1, !.events = slept]
                ELSE Returns(l.op, l.a, Append(slept, Event("simulate", 0)), FALSE,
                             simulation)

\* the service answers the attempt in flight
Attempt(outcome) ==
    /\ InFlight
    /\ last' = IF settings.AI_SERVICE = "ibm" THEN IbmAttempt(last, outcome)
               ELSE HuggingfaceAttempt(last, outcome)
    /\ UNCHANGED <<content, search_index, seq, now, before, conns, settings>>

\* the application is started with another environment
Configure(service, api_key, project_id) ==
    /\ ~Busy
    /\ settings' = [AI_SERVICE |-> service, api_key |-> api_key,
                    project_id |-> project_id]
    /\ settings' # settings
    /\ UNCHANGED <<content, search_index, seq, now, last, before, conns>>

(***************************************************************************)
(* PodcastNarrator: the prompt, the script template and the calls.         *)
(***************************************************************************)
narrator_max_retries == 2

style_prompts ==
    "Conversational" :> "Create a friendly, chatty podcast script like a casual conversation between friends."
    @@ "Educational" :> "Create an informative, educational podcast script that explains concepts clearly."
    @@ "Storytelling" :> "Create a narrative podcast script with dramatic elements and storytelling techniques."
    @@ "News" :> "Create a formal, news-style podcast script with authoritative reporting."
    @@ "Interview" :> "Create an interview-style podcast script with questions and answers."

\* the prompt generate_podcast_script builds
PodcastPrompt(a) ==
    LET style_prompt == IF a.style \in DOMAIN style_prompts THEN style_prompts[a.style]
                        ELSE style_prompts["Educational"]
    IN  "\n        Transform the following content into an engaging podcast script. \n        "
        \o style_prompt
        \o "\n        \n        Guidelines:\n        - Use a conversational tone appropriate for the "
        \o lower(a.style)
        \o " style\n        - Break down complex ideas into simple, digestible parts\n        - Use analogies and examples to make concepts relatable\n        - Add a brief introduction and conclusion\n        - Keep it engaging and easy to follow\n        \n        Topic: "
        \o (IF a.topic # "" THEN a.topic ELSE "General explanation")
        \o "\n        Style: "
        \o a.style
        \o "\n        \n        Content to transform:\n        "
        \o a.content
        \o "\n        \n        Podcast Script:\n        "

\* prompt.split("Content to transform:")[-1] if "Content to transform:" in
\* prompt else prompt: what follows the last occurrence of the heading
ContentOfPrompt(prompt) ==
    LET heading == "Content to transform:"
        at == {i \in 1..(Len(prompt) - Len(heading) + 1) :
                  SubSeq(prompt, i, i + Len(heading) - 1) = heading}
    IN  IF at = {} THEN prompt
        ELSE SubSeq(prompt, (CHOOSE i \in at : \A j \in at : j <= i) + Len(heading),
                    Len(prompt))

\* _create_podcast_script: the introduction of the style
PodcastIntro(topic, style) ==
    LET about(otherwise) == IF topic # "" THEN lower(topic) ELSE otherwise
    IN  CASE style = "Educational" ->
                "Welcome to the EchoVerse Podcast. I'm your host, and today we're exploring "
                    \o about("an important topic") \o ".\n\n"
          [] style = "Conversational" ->
                "Hey there! Welcome to the show. Today we're chatting about "
                    \o about("something really interesting") \o ".\n\n"
          [] style = "Storytelling" ->
                "Gather round, listeners. Today's story is about "
                    \o about("a remarkable journey") \o ".\n\n"
          [] style = "News" ->
                "This is EchoVerse News. Our top story today: "
                    \o about("important developments") \o ".\n\n"
          [] style = "Interview" ->
                "Welcome to EchoVerse Interviews. Today we're speaking with an expert about "
                    \o about("their field of expertise") \o ".\n\n"
          [] OTHER ->
                "Welcome to EchoVerse Podcast. Today we're discussing "
                    \o about("an important topic") \o ".\n\n"

\* _create_podcast_script: the i-th paragraph (from 0) in the style
PodcastParagraph(i, paragraph, style) ==
    CASE style = "Educational" ->
            (IF i = 0 THEN "To begin with, " ELSE "Another important point: ") \o paragraph
      [] style = "Conversational" ->
            (IF i = 0 THEN "So, here's the thing: " ELSE "And you know what else? ")
                \o paragraph
      [] style = "Storytelling" -> "As the story goes, " \o paragraph
      [] style = "News" -> "Reports indicate that " \o paragraph
      [] style = "Interview" -> "Our expert explains: " \o paragraph
      [] OTHER -> paragraph

\* _create_podcast_script: the conclusion of the style
PodcastOutro(style) ==
    CASE style = "Educational" ->
            "\n\nAnd that's our lesson for today. I hope you found this information helpful and informative."
      [] style = "Conversational" ->
            "\n\nWell, that's all the time we have for today. Thanks for hanging out and chatting with me!"
      [] style = "Storytelling" ->
            "\n\nAnd so our story comes to an end, but the lessons remain with us."
      [] style = "News" ->
            "\n\nThat's all for this edition of EchoVerse News. Stay tuned for more updates."
      [] style = "Interview" ->
            "\n\nThank you to our expert for sharing those valuable insights with us today."
      [] OTHER ->
            "\n\nAnd that brings us to the end of today's discussion. Thank you for listening."

create_podcast_script(content_, topic, style) ==
    LET paragraphs == SelectSeq(split(content_, "\n"), LAMBDA p : strip(p) # "")
        podcast_content ==
            [i \in 1..Len(paragraphs) |-> PodcastParagraph(i - 1, strip(paragraphs[i]), style)]
    IN  PodcastIntro(topic, style) \o "Let's dive right in.\n\n"
            \o join(" ", podcast_content)
            \o PodcastOutro(style) \o "\n\nThis has been an EchoVerse production."

PodcastContents == {"", "Hi.", "One.\n\nTwo."}
PodcastTopics == {"", "Tides"}
PodcastStyles ==
    {"Educational", "Conversational", "Storytelling", "News", "Interview", "Casual"}

\* what the service answers to one attempt of the narrator
PodcastServiceTexts == {"", "Hi.", " Welcome back. "}
PodcastOutcomes ==
    {[kind |-> k, text |-> ""] : k \in {"exception", "status", "empty_list", "null_item"}}
        \cup {[kind |-> "generated", text |-> t] : t \in PodcastServiceTexts}

\* the script written from the content, topic and style of the call, and the
\* one _make_huggingface_request writes from the tail of its prompt
TemplateScriptOf(a) == create_podcast_script(a.content, a.topic, a.style)

PromptScriptOf(a) ==
    create_podcast_script(ContentOfPrompt(PodcastPrompt(a)), "", "Educational")

\* both, worked out once for the inputs of the calls
PodcastScriptTable ==
    [a \in [content : PodcastContents, topic : PodcastTopics, style : PodcastStyles] |->
        [template |-> TemplateScriptOf(a), prompt |-> PromptScriptOf(a)]] @@ <<>>

TemplateScript(a) ==
    IF a \in DOMAIN PodcastScriptTable THEN PodcastScriptTable[a].template
    ELSE TemplateScriptOf(a)

PromptScript(a) ==
    IF a \in DOMAIN PodcastScriptTable THEN PodcastScriptTable[a].prompt
    ELSE PromptScriptOf(a)

\* generate_podcast_script from the answer of _make_huggingface_request on:
\* the script when it is not empty and not the content, else the template
ScriptOrTemplate(script, a) ==
    IF script # "" /\ script # a.content THEN script ELSE TemplateScript(a)

\* the key the narrator was built with: HUGGINGFACE_API_KEY, which is the
\* key of the settings when the selected service is huggingface
NarratorKeys ==
    IF settings.AI_SERVICE = "huggingface" THEN {settings.api_key} ELSE ApiKeys

PodcastReturns(a, events, script) ==
    [op |-> "generate_podcast_script", a |-> a, attempt |-> 0, events |-> events,
     pc |-> "returned", rewrite |-> [raised |-> FALSE, text |-> ""], ret |-> script]

\* generate_podcast_script up to its first attempt on the service
GeneratePodcastScript(content_, topic, style, api_key) ==
    LET a == [content |-> content_, topic |-> topic, style |-> style]
    IN  /\ ~Busy
        /\ IF api_key = ""
           THEN last' = PodcastReturns(a, <<Event("prompt", 0), Event("template", 0)>>,
                                       TemplateScript(a))
           ELSE last' = [Requesting("generate_podcast_script", a) EXCEPT
                            !.events = <<Event("prompt", 0)>>]
        /\ UNCHANGED <<content, search_index, seq, now, before, conns, settings>>

\* the narrator's loop going round one time more than max_retries allows
NarratorAttempt_OneMore(l, outcome) ==
    LET posted == l.events \o <<Event("post", l.attempt), Event(outcome.kind, l.attempt)>>
    IN  CASE outcome.kind = "generated" ->
                PodcastReturns(l.a, posted, ScriptOrTemplate(strip(outcome.text), l.a))
          [] outcome.kind = "null_item" ->
                PodcastReturns(l.a, Append(posted, Event("template", 0)),
                               TemplateScript(l.a))
          [] outcome.kind = "status" ->
                PodcastReturns(l.a, Append(posted, Event("prompt_template", 0)),
                               ScriptOrTemplate(PromptScript(l.a), l.a))
          [] OTHER ->
                IF l.attempt + 1 <= narrator_max_retries
                THEN [l EXCEPT !.attempt = @ + 1, !.events = posted]
                ELSE PodcastReturns(l.a, Append(posted, Event("prompt_template", 0)),
                                    ScriptOrTemplate(PromptScript(l.a), l.a))

\* one pass of the retry loop of the narrator's _make_huggingface_request and
\* what generate_podcast_script does with its answer: a generated text is
\* returned unless empty or equal to the content, a status other than 200
\* and the end of the loop give the script written from the prompt's tail, a
\* payload that is neither a list with items nor a dictionary goes round
\* again, a RequestException too after a sleep of 2 s when attempts remain,
\* and an item without generated_text raises into the template
NarratorAttempt(l, outcome) ==
    LET posted == l.events \o <<Event("post", l.attempt), Event(outcome.kind, l.attempt)>>
        slept == IF outcome.kind = "exception" /\ l.attempt < narrator_max_retries - 1
                 THEN Append(posted, Event("sleep", 2))
                 ELSE posted
    IN  CASE outcome.kind = "generated" ->
                PodcastReturns(l.a, posted, ScriptOrTemplate(strip(outcome.text), l.a))
          [] outcome.kind = "null_item" ->
                PodcastReturns(l.a, Append(posted, Event("template", 0)),
                               TemplateScript(l.a))
          [] outcome.kind = "status" ->
                PodcastReturns(l.a, Append(posted, Event("prompt_template", 0)),
                               ScriptOrTemplate(PromptScript(l.a), l.a))
          [] OTHER ->
                IF l.attempt + 1 < narrator_max_retries
                THEN [l EXCEPT !.attempt = @ + 1, !.events = slept]
                ELSE PodcastReturns(l.a, Append(slept, Event("prompt_template", 0)),
                                    ScriptOrTemplate(PromptScript(l.a), l.a))

\* the service answers the narrator's attempt in flight
PodcastAttempt(outcome) ==
    /\ PodcastInFlight
    /\ last' = NarratorAttempt(last, outcome)
    /\ UNCHANGED <<content, search_index, seq, now, before, conns, settings>>

(***************************************************************************)
(* TextAnalyzer: the calls.                                                *)
(***************************************************************************)
ShortenText(text, max_sentences, max_words) ==
    /\ last' = [op |-> "shorten_text",
                a |-> [text |-> text, max_sentences |-> max_sentences,
                       max_words |-> max_words],
                ret |-> Shortened(text, max_sentences, max_words)]
    /\ UNCHANGED <<content, search_index, seq, now, before, conns, settings>>

IsTextTooLong(text, max_words) ==
    /\ last' = [op |-> "is_text_too_long",
                a |-> [text |-> text, max_words |-> max_words],
                ret |-> TooLong(text, max_words)]
    /\ UNCHANGED <<content, search_index, seq, now, before, conns, settings>>

(***************************************************************************)
(* TTSEngine: voices, file names and generate_audio.  What the engine      *)
(* finds around it is the environment of a request: which utils module is  *)
(* imported (utils.py, whose generate_filename reads the clock through a   *)
(* name the module never imports, or its copy), whether the cloud          *)
(* synthesizer is set up and answers, whether gTTS answers, and the        *)
(* statement of index_content that raises.                                 *)
(***************************************************************************)
\* config.AVAILABLE_VOICES: the voices of a language in dictionary order
AVAILABLE_VOICES ==
    "English" :> <<[name |-> "Lisa", voice |-> "en-US_LisaV3Voice"],
                   [name |-> "Michael", voice |-> "en-US_MichaelV3Voice"],
                   [name |-> "Allison", voice |-> "en-US_AllisonV3Voice"]>>
    @@ "Telugu" :> <<[name |-> "Alexa", voice |-> "te-IN_NeerjaV3Voice"],
                     [name |-> "Mazeo", voice |-> "te-IN_MohanV3Voice"],
                     [name |-> "Default", voice |-> "te-IN_MohanV3Voice"]>>
    @@ "Hindi" :> <<[name |-> "Default", voice |-> "hi-IN_KaranV3Voice"]>>
    @@ "Spanish" :> <<[name |-> "Default", voice |-> "es-ES_LauraV3Voice"]>>

\* config.SUPPORTED_LANGUAGES: the code of a language
SUPPORTED_LANGUAGES ==
    "English" :> "en" @@ "Hindi" :> "hi" @@ "Telugu" :> "te" @@ "Spanish" :> "es"
    @@ "French" :> "fr" @@ "German" :> "de" @@ "Italian" :> "it"
    @@ "Portuguese" :> "pt" @@ "Japanese" :> "ja" @@ "Korean" :> "ko"
    @@ "Chinese" :> "zh" @@ "Arabic" :> "ar" @@ "Russian" :> "ru"

AUDIO_DIR == "temp/audio"

\* self.voices.get(language, self.voices["English"])
language_voices(language) ==
    IF language \in DOMAIN AVAILABLE_VOICES THEN AVAILABLE_VOICES[language]
    ELSE AVAILABLE_VOICES["English"]

VoiceNames(language) ==
    {language_voices(language)[i].name : i \in DOMAIN language_voices(language)}

\* the requested voice used as it is
resolve_voice_AsRequested(voice, language) == voice

\* generate_audio: the requested voice when the language has it, else the
\* first voice of the language
resolve_voice(voice, language) ==
    IF voice \in VoiceNames(language) THEN voice
    ELSE language_voices(language)[1].name

\* _generate_audio_file: language_voices.get(voice, first)["voice"]
voice_code(voice, language) ==
    LET vs == language_voices(language)
        named == {i \in DOMAIN vs : vs[i].name = voice}
    IN  IF named # {} THEN vs[CHOOSE i \in named : TRUE].voice ELSE vs[1].voice

\* _generate_audio_with_gtts: SUPPORTED_LANGUAGES.get(language, {}).get("code", "en")
lang_code(language) ==
    IF language \in DOMAIN SUPPORTED_LANGUAGES THEN SUPPORTED_LANGUAGES[language]
    ELSE "en"

\* generate_filename of the copy of utils
generate_filename(base_name, tone, voice, extension) ==
    LET kept == join("", Runs(base_name, WordChars \cup {" ", "-"}, TRUE, 1, Len(base_name)))
        clean_base == replace(strip(kept), " ", "_")
    IN  (IF clean_base = "" THEN "audiobook" ELSE clean_base)
            \o "_" \o lower(tone) \o "_" \o lower(voice) \o extension

\* the tones of the requests
AudioTones == {"Neutral"}

\* the same, worked out once for the files generate_audio names
FileNameTable ==
    [x \in {<<"audiobook", ".mp3">>, <<"podcast", "_podcast.mp3">>}
            \X AudioTones
            \X UNION {VoiceNames(language) : language \in DOMAIN AVAILABLE_VOICES} |->
        generate_filename(x[1][1], x[2], x[3], x[1][2])] @@ <<>>

FileName(base_name, tone, voice, extension) ==
    Memo(FileNameTable, <<<<base_name, extension>>, tone, voice>>,
         generate_filename(base_name, tone, voice, extension))

\* os.path.join(AUDIO_DIR, filename)
AudioPath(filename) == AUDIO_DIR \o "/" \o filename

\* an audio path or None
NoPath == <<>>
PathOf(path) == <<path>>

\* the environments of a request
Env(analysis, utils, ibm_tts, gtts, create_podcast_audio, fail) ==
    [analysis |-> analysis, utils |-> utils, ibm_tts |-> ibm_tts, gtts |-> gtts,
     create_podcast_audio |-> create_podcast_audio, fail |-> fail]

\* the title index_content is given: the first 5 words of the text
TitleOf(text) ==
    LET ws == words(text)
    IN  join(" ", SubSeq(ws, 1, Min(5, Len(ws)))) \o (IF Len(ws) > 5 THEN "..." ELSE "")

\* the statistics of the except clause when analyze_text raises
MinimalAnalysis(text) ==
    [char_count |-> Len(text), word_count |-> Len(words(text)), sentence_count |-> 1,
     common_words |-> <<>>, reading_time_minutes |-> 0, nltk_available |-> FALSE]

\* what generate_audio works out of a text: analyze_text, the title, the
\* statistics of the except clause and len(text.split())
TextFactsOf(text) ==
    [analysis |-> analyze_text(text), title |-> TitleOf(text),
     minimal |-> MinimalAnalysis(text), word_count |-> Len(words(text))]

\* the same, worked out once for the texts spoken
AnalysisTable == [text \in SpokenTexts |-> TextFactsOf(text)] @@ <<>>

TextFacts(text) == Memo(AnalysisTable, text, TextFactsOf(text))

Step(step, ok, with) == [step |-> step, ok |-> ok, with |-> with]

\* a failed request reported without the error
FailureResult_Silent(a, env, given, error) ==
    [audio_path |-> NoPath, processed_text |-> a.text,
     analysis |-> IF env.analysis = "raises" THEN given.minimal ELSE given.analysis,
     success |-> FALSE]

\* the except clause of generate_audio: the result of a failed request, given
\* being what is worked out of the text of the request
FailureResult(a, env, given, error) ==
    [audio_path |-> NoPath, processed_text |-> a.text,
     analysis |-> IF env.analysis = "raises" THEN given.minimal ELSE given.analysis,
     success |-> FALSE, error |-> error]

\* _generate_audio_file and _generate_audio_with_gtts writing to filepath
SynthesisTo(filepath, voice, a, env) ==
    LET ibm == Step("Synthesize", env.ibm_tts = "works",
                    [by |-> "ibm_tts", voice |-> voice_code(voice, a.language)])
        gtts == Step("Synthesize", env.gtts = "works",
                     [by |-> "gtts", voice |-> lang_code(a.language)])
    IN  IF env.utils = "utils.py"
        THEN [steps |-> <<Step("Synthesize", FALSE, [by |-> "generate_filename"])>>,
              path |-> NoPath, error |-> "name 'time' is not defined"]
        ELSE IF env.ibm_tts = "works"
        THEN [steps |-> <<ibm>>, path |-> PathOf(filepath), error |-> ""]
        ELSE [steps |-> (IF env.ibm_tts = "fails" THEN <<ibm>> ELSE <<>>) \o <<gtts>>,
              path |-> IF env.gtts = "works" THEN PathOf(filepath) ELSE NoPath,
              error |-> IF env.gtts = "works" THEN "" ELSE "gTTS"]

\* _generate_audio_file and _generate_audio_with_gtts: the steps taken, the
\* path of the file written (NoPath when an exception leaves) and the error
Synthesis(processed_text, voice, a, env) ==
    SynthesisTo(AudioPath(FileName("audiobook", a.tone, voice, ".mp3")), voice, a, env)

\* create_podcast_audio: the placeholder of utils.py returns the path it is
\* given; the copy returns the path of the podcast file, or the path it is
\* given when the audio processing raises
Enhanced(audio_path, voice, a, env) ==
    IF env.create_podcast_audio = "copy works"
    THEN AudioPath(FileName("podcast", a.tone, voice, "_podcast.mp3"))
    ELSE audio_path

\* the voice of a request, whether its text is shortened and the text spoken
Processed(a, shorten) ==
    [voice |-> resolve_voice(a.voice, a.language), shorten |-> shorten,
     processed_text |->
        IF shorten THEN Shortened(a.text, shorten_max_sentences, shorten_max_words)
        ELSE a.text]

\* generate_audio that indexes the file as synthesized, before it is enhanced
AudioResult_IndexFirst(a, env, p, synthesis, given, spoken) ==
    LET analyzed ==
            <<Step("Analyze", TRUE, <<>>)>>
                \o (IF p.shorten THEN <<Step("Shorten", TRUE, <<>>)>> ELSE <<>>)
        audio_path ==
            IF a.podcast_mode THEN Enhanced(synthesis.path[1], p.voice, a, env)
            ELSE synthesis.path[1]
        enhanced ==
            IF a.podcast_mode
            THEN <<Step("Enhance", TRUE, [by |-> env.create_podcast_audio])>>
            ELSE <<>>
        analysis ==
            spoken.analysis
                @@ (IF p.shorten
                    THEN [was_shortened |-> TRUE,
                          original_word_count |-> given.word_count]
                    ELSE <<>>)
                @@ [podcast_enhanced |-> a.podcast_mode]
        index == [title |-> given.title, original_text |-> a.text,
                  rewritten_text |-> p.processed_text, tone |-> a.tone,
                  voice |-> p.voice, audio_path |-> synthesis.path[1],
                  word_count |-> analysis.word_count,
                  duration_minutes |-> analysis.reading_time_minutes]
    IN  IF env.analysis = "raises"
        THEN [voice |-> p.voice,
              steps |-> <<Step("Analyze", FALSE, <<>>), Step("Result", FALSE, <<>>)>>,
              index |-> <<>>,
              ret |-> FailureResult(a, env, given, "analyze_text")]
        ELSE IF synthesis.path = NoPath
        THEN [voice |-> p.voice,
              steps |-> analyzed \o synthesis.steps \o <<Step("Result", FALSE, <<>>)>>,
              index |-> <<>>,
              ret |-> FailureResult(a, env, given, synthesis.error)]
        ELSE [voice |-> p.voice,
              steps |-> analyzed \o synthesis.steps
                        \o <<Step("Index", env.fail = "none",
                                  [audio_path |-> index.audio_path])>>
                        \o enhanced \o <<Step("Result", TRUE, <<>>)>>,
              index |-> <<index>>,
              ret |-> [audio_path |-> PathOf(audio_path),
                       processed_text |-> p.processed_text, analysis |-> analysis,
                       success |-> TRUE]]

\* generate_audio from the synthesis on: p is the voice and the text spoken,
\* given and spoken what is worked out of the text of the request and of the
\* text spoken
AudioResult(a, env, p, synthesis, given, spoken) ==
    LET analyzed ==
            <<Step("Analyze", TRUE, <<>>)>>
                \o (IF p.shorten THEN <<Step("Shorten", TRUE, <<>>)>> ELSE <<>>)
        audio_path ==
            IF a.podcast_mode THEN Enhanced(synthesis.path[1], p.voice, a, env)
            ELSE synthesis.path[1]
        enhanced ==
            IF a.podcast_mode
            THEN <<Step("Enhance", TRUE, [by |-> env.create_podcast_audio])>>
            ELSE <<>>
        analysis ==
            spoken.analysis
                @@ (IF p.shorten
                    THEN [was_shortened |-> TRUE,
                          original_word_count |-> given.word_count]
                    ELSE <<>>)
                @@ [podcast_enhanced |-> a.podcast_mode]
        index == [title |-> given.title, original_text |-> a.text,
                  rewritten_text |-> p.processed_text, tone |-> a.tone,
                  voice |-> p.voice, audio_path |-> audio_path,
                  word_count |-> analysis.word_count,
                  duration_minutes |-> analysis.reading_time_minutes]
    IN  IF env.analysis = "raises"
        THEN [voice |-> p.voice,
              steps |-> <<Step("Analyze", FALSE, <<>>), Step("Result", FALSE, <<>>)>>,
              index |-> <<>>,
              ret |-> FailureResult(a, env, given, "analyze_text")]
        ELSE IF synthesis.path = NoPath
        THEN [voice |-> p.voice,
              steps |-> analyzed \o synthesis.steps \o <<Step("Result", FALSE, <<>>)>>,
              index |-> <<>>,
              ret |-> FailureResult(a, env, given, synthesis.error)]
        ELSE [voice |-> p.voice,
              steps |-> analyzed \o synthesis.steps \o enhanced
                        \o <<Step("Index", env.fail = "none",
                                  [audio_path |-> index.audio_path]),
                             Step("Result", TRUE, <<>>)>>,
              index |-> <<index>>,
              ret |-> [audio_path |-> PathOf(audio_path),
                       processed_text |-> p.processed_text, analysis |-> analysis,
                       success |-> TRUE]]

\* generate_audio once the voice and the text spoken are settled
Spoken(a, env, p) ==
    AudioResult(a, env, p, Synthesis(p.processed_text, p.voice, a, env),
                TextFacts(a.text), TextFacts(p.processed_text))

\* TTSEngine.generate_audio: the voice used, the steps taken in order, the
\* arguments index_content is called with (none when it is not called) and
\* the result
generate_audio(a, env) ==
    Spoken(a, env, Processed(a, a.auto_shorten /\ TooLong(a.text, too_long_max_words)))

\* the requests and the environments they are made in
\* a voice the language has, one it has not, and a language without voices
AudioVoices ==
    {<<"Lisa", "English">>, <<"Lisa", "Telugu">>, <<"Mazeo", "Klingon">>}

AudioArgs ==
    {[text |-> text, voice |-> v[1], tone |-> tone, language |-> v[2],
      auto_shorten |-> auto_shorten, podcast_mode |-> podcast_mode] :
        text \in AudioTexts, v \in AudioVoices, tone \in AudioTones,
        auto_shorten \in BOOLEAN, podcast_mode \in BOOLEAN}

\* the synthesizers of an engine: the cloud one (absent when not set up) and
\* gTTS, which is reached only when the cloud one is absent or fails
Synthesizers ==
    {<<"absent", "works">>, <<"absent", "fails">>, <<"works", "works">>,
     <<"fails", "works">>}

Environments ==
    {Env("raises", "copy", "absent", "works", "copy works", "none"),
     Env("works", "utils.py", "absent", "works", "utils.py", "none")}
    \cup {Env("works", "copy", s[1], s[2], e, f) :
            s \in Synthesizers, e \in {"copy works", "copy fails"},
            f \in {"none", "commit"}}

\* the requests made one after another: in a language that has voices
RepeatedArgs ==
    {[text |-> text, voice |-> v[1], tone |-> tone, language |-> v[2],
      auto_shorten |-> auto_shorten, podcast_mode |-> podcast_mode] :
        text \in RepeatedTexts,
        v \in {w \in AudioVoices : w[2] \in DOMAIN AVAILABLE_VOICES},
        tone \in AudioTones, auto_shorten \in BOOLEAN, podcast_mode \in BOOLEAN}

\* generate_audio, worked out once for the requests and their environments
GenerateAudioTable ==
    [x \in (AudioArgs \cup RepeatedArgs) \X Environments |->
        generate_audio(x[1], x[2])] @@ <<>>

\* the store index_content leaves when the statements of prog are executed;
\* fail names what raises in it: nothing or the commit
StoreAfter(a, fail, existing, prog) ==
    CloseConnection(
        Store,
        RunIndexStmts(prog, IF fail = "none" THEN Len(prog) ELSE Len(prog) - 1,
                      [db |-> Store, existing |-> existing, content_id |-> NoRow],
                      a, now).db,
        fail = "none")

IndexedAt(a, fail, existing) == StoreAfter(a, fail, existing, IndexProgram(existing, a))

IndexedStore(a, fail) == IndexedAt(a, fail, SelectIdByPath(Store, a.audio_path))

\* the request returning r and leaving the store after
AudioReturn(a, env, r, after) ==
    /\ r.index # <<>> \/ env.fail = "none"
    /\ a.podcast_mode \/ env.create_podcast_audio # "copy fails"
    /\ content' = after.content
    /\ search_index' = after.search_index
    /\ seq' = after.seq
    /\ last' = [op |-> "generate_audio", a |-> a, env |-> env, voice |-> r.voice,
                steps |-> r.steps, index |-> r.index, pc |-> "returned",
                ret |-> r.ret]
    /\ before' = Store
    /\ UNCHANGED <<now, conns, settings>>

AudioRequest(a, env, r) ==
    AudioReturn(a, env, r,
                IF r.index = <<>> THEN Store ELSE IndexedStore(r.index[1], env.fail))

\* generate_audio(text, voice, tone, language, auto_shorten, podcast_mode)
GenerateAudio(a, env) == AudioRequest(a, env, GenerateAudioTable[<<a, env>>])

(***************************************************************************)
(* The store under calls made one at a time.                               *)
(***************************************************************************)
Ids == 1..MaxId

\* the statements of a call that can raise, NoFailure included
IndexFailPoints(a) ==
    0..(Len(IndexProgram(SelectIdByPath(Store, a.audio_path), a)) + 2)
DeleteFailPoints == 0..4
ReadFailPoints == 0..2
StatisticsFailPoints == 0..6

\* a connection no call is using
Closed ==
    [pc |-> "idle", op |-> "", a |-> <<>>, existing |-> NoRow, content_id |-> NoRow,
     prog |-> <<>>, i |-> 0, txn |-> FALSE, db |-> <<>>, rowcount |-> 0]

Callers == 1..MaxCallers

Init ==
    /\ conns = [p \in Callers |-> Closed]
    /\ content = {}
    /\ search_index = EmptyBag
    /\ seq = 0
    /\ now = 0
    /\ last = [op |-> "init", raised |-> FALSE]
    /\ before = [content |-> {}, search_index |-> EmptyBag, seq |-> 0]
    /\ settings = DefaultSettings

Next ==
    \/ \E a \in StoreArgs : \E fail \in IndexFailPoints(a) : IndexContent(a, fail)
    \/ \E id \in Ids, fail \in DeleteFailPoints : DeleteContent(id, fail)
    \/ \E q \in StoreQueries, fail \in ReadFailPoints :
          SearchContent(q, NoFilter, NoFilter, NoFilter, 10, fail)
    \/ \E id \in Ids, fail \in ReadFailPoints : GetContentById(id, fail)
    \/ \E fail \in StatisticsFailPoints : GetStatistics(fail)

Spec == Init /\ [][Next]_vars

(***************************************************************************)
(* Properties of the store under calls made one at a time.                 *)
(***************************************************************************)
\* the word tokens longer than 2 characters of a record's lowercased text
RecordTokens(r) ==
    LET tokens == tokenize_text(lower(r.original_text \o " " \o r.rewritten_text))
    IN  [i \in {j \in 1..Len(tokens) : Len(tokens[j]) > 2} |-> tokens[i]]

RecordTokenSet(r) == {RecordTokens(r)[i] : i \in DOMAIN RecordTokens(r)}

\* the call made last was index_content, it succeeded, and its audio_path
\* had a record already
ReindexedLast ==
    /\ last.op = "index_content"
    /\ last.ret
    /\ \E r \in before.content : r.audio_path = last.audio_path

OldRecord == CHOOSE r \in before.content : r.audio_path = last.audio_path

\* the ids a search for query can return now, whatever the order of ties
SearchHits(query) ==
    UNION {{f.rows[i].id : i \in DOMAIN f.rows}
           : f \in SearchSelect(Store, query, NoFilter, NoFilter, NoFilter, 10, now)}

\* C1: index_content on an audio_path that has a record leaves one row for
\* the path, with the id it had and the same number of rows in all, and a
\* search for a token only the replaced text had does not return the record
C1_UpsertInPlace ==
    ReindexedLast =>
        LET rows == {r \in content : r.audio_path = last.audio_path}
        IN  /\ Cardinality(rows) = 1
            /\ Cardinality(content) = Cardinality(before.content)
            /\ \A r \in rows :
                 /\ r.id = OldRecord.id
                 /\ \A t \in RecordTokenSet(OldRecord) \ RecordTokenSet(r) :
                      r.id \notin SearchHits(t)

C1_Witness ==
    /\ ReindexedLast
    /\ \E r \in content :
         /\ r.audio_path = last.audio_path
         /\ RecordTokenSet(OldRecord) \ RecordTokenSet(r) # {}
         /\ RecordTokenSet(r) # {}

\* C2: every search_index row belongs to a content row, and each record has
\* exactly one row per distinct token of its current text, with the number
\* of occurrences of the token as frequency
C2_IndexMatchesContent ==
    /\ \A x \in DOMAIN search_index :
         /\ search_index[x] = 1
         /\ \E r \in content :
              /\ r.id = x.content_id
              /\ x.token \in RecordTokenSet(r)
              /\ x.frequency =
                   Cardinality({i \in DOMAIN RecordTokens(r) : RecordTokens(r)[i] = x.token})
    /\ \A r \in content : \A t \in RecordTokenSet(r) :
         Cardinality({x \in DOMAIN search_index :
                        x.content_id = r.id /\ x.token = t}) = 1

C2_Witness ==
    /\ ReindexedLast
    /\ Cardinality(content) = 2
    /\ \E x \in DOMAIN search_index : x.frequency = 2
    /\ \E r \in content : RecordTokenSet(r) # RecordTokenSet(OldRecord)
                          /\ r.id = OldRecord.id

DegradedResult ==
    [search_content |-> <<>>, index_content |-> FALSE, get_content_by_id |-> NoRow,
     delete_content |-> FALSE, get_statistics |-> ZeroStatistics]

\* C7: no call of the search engine propagates an exception when the
\* storage layer fails, the failure to open the connection included
C7_StorageFailureNeverPropagates ==
    (last.op \in DOMAIN DegradedResult /\ last.fail # NoFailure) =>
        /\ ~last.raised
        /\ last.ret = DegradedResult[last.op]

(***************************************************************************)
(* Searches with filters, as time passes.                                  *)
(***************************************************************************)
NextSearch ==
    \/ \E a \in SearchArgs : IndexContent(a, NoFailure)
    \/ \E q \in SearchQueries, f \in SearchFilters, limit \in Limits :
          SearchContent(q, f[1], f[2], f[3], limit, NoFailure)
    \/ \E limit \in Limits : GetRecentContent(limit, NoFailure)
    \/ Tick

SpecSearch == Init /\ [][NextSearch]_vars

\* the age of a record, in ticks
Age(r) == now - r.created_at

\* a record a search with the filters of the last call has to return:
\* exact tone, exact voice, created today or less than the window's days ago
MustPass(r) ==
    /\ last.tone_filter # "" => r.tone = last.tone_filter
    /\ last.voice_filter # "" => r.voice = last.voice_filter
    /\ last.date_filter = "today" => r.created_at \div TicksPerDay = now \div TicksPerDay
    /\ last.date_filter = "week" => Age(r) < 7 * TicksPerDay

\* a record such a search may return: as MustPass, the window taken to the
\* end of its last day
MayPass(r) ==
    /\ last.tone_filter # "" => r.tone = last.tone_filter
    /\ last.voice_filter # "" => r.voice = last.voice_filter
    /\ last.date_filter = "today" => r.created_at \div TicksPerDay = now \div TicksPerDay
    /\ last.date_filter = "week" => Age(r) < 8 * TicksPerDay

\* a returned row without its preview
RowOf(x) == [f \in DOMAIN x \ {"preview"} |-> x[f]]

\* key k1 sorts at or before key k2: first component descending, then second
AtOrBefore(k1, k2) == k1[1] > k2[1] \/ (k1[1] = k2[1] /\ k1[2] >= k2[2])

\* ret lists records of may, each once, in the order of key, up to limit of
\* them, and leaves out a record of must only when limit is reached and the
\* record sorts at or after the last one listed
ListsInOrder(ret, must, may, key, limit) ==
    /\ \A i \in DOMAIN ret : RowOf(ret[i]) \in may
    /\ \A i, j \in DOMAIN ret : i < j =>
         /\ ret[i].id # ret[j].id
         /\ AtOrBefore(key[RowOf(ret[i])], key[RowOf(ret[j])])
    /\ Len(ret) <= limit
    /\ \A r \in must :
         \/ \E i \in DOMAIN ret : RowOf(ret[i]) = r
         \/ /\ Len(ret) = limit
            /\ limit > 0 => AtOrBefore(key[RowOf(ret[limit])], key[r])

LastQueryTokens ==
    {SearchTokens(last.query)[i] : i \in DOMAIN SearchTokens(last.query)}

RecencyKey == [r \in content |-> <<0, r.created_at>>]

\* C5: a search whose query has no token returns the records that satisfy
\* the filters, most recent first, at most limit of them
C5_NoTokenSearchAppliesFilters ==
    (last.op = "search_content" /\ last.fail = NoFailure /\ LastQueryTokens = {}) =>
        ListsInOrder(last.ret, {r \in content : MustPass(r)},
                     {r \in content : MayPass(r)}, RecencyKey, last.limit)

\* the sum of the frequencies of the index rows of r whose token is a query token
RECURSIVE MatchedFrequency(_)
MatchedFrequency(rows) ==
    IF rows = {} THEN 0
    ELSE LET x == CHOOSE y \in rows : TRUE
         IN  x.frequency * search_index[x] + MatchedFrequency(rows \ {x})

MatchedRows(r) ==
    {x \in DOMAIN search_index : x.content_id = r.id /\ x.token \in LastQueryTokens}

RelevanceKey == [r \in content |-> <<MatchedFrequency(MatchedRows(r)), r.created_at>>]

\* C6: a search whose query has a token returns the records with an index
\* token among the query's that satisfy the filters, each once, by relevance
\* and then creation time, both descending, at most limit of them
C6_TokenSearchRanksMatches ==
    (last.op = "search_content" /\ last.fail = NoFailure /\ LastQueryTokens # {}) =>
        ListsInOrder(last.ret,
                     {r \in content : MustPass(r) /\ MatchedRows(r) # {}},
                     {r \in content : MayPass(r) /\ MatchedRows(r) # {}},
                     RelevanceKey, last.limit)

C6_Witness ==
    /\ last.op = "search_content"
    /\ last.fail = NoFailure
    /\ LastQueryTokens # {}
    /\ last.date_filter = "week"
    /\ last.tone_filter # ""
    /\ Len(last.ret) = 2
    /\ RelevanceKey[RowOf(last.ret[1])][1] > RelevanceKey[RowOf(last.ret[2])][1]
    /\ last.ret[1].created_at < last.ret[2].created_at

(***************************************************************************)
(* Callers writing the index concurrently, each over its own connection,   *)
(* one statement at a time.  The existence SELECT of index_content runs    *)
(* before any transaction; the first write of a call opens the             *)
(* transaction and takes the write lock of the database file, which a      *)
(* second writer waits for until it gets it or its busy timeout raises     *)
(* "database is locked".                                                   *)
(***************************************************************************)
ConcurrentArgs ==
    [title : {"Cat cat ox"}, original_text : OriginalTexts,
     rewritten_text : {""}, tone : {"Neutral"}, voice : {"Lisa"},
     audio_path : {"temp/audio/a.mp3"}, word_count : {3}, duration_minutes : {1}]

\* another connection holds the write lock
WriteLocked(p) == \E q \in Callers \ {p} : conns[q].txn

\* the statement connection p executes next
NextStmt(p) == conns[p].prog[conns[p].i]

\* what the statements of p act on: its transaction, or the committed store
Working(p) ==
    [db |-> IF conns[p].txn THEN conns[p].db ELSE Store,
     existing |-> conns[p].existing, content_id |-> conns[p].content_id]

\* index_content is called: the connection is opened
CallIndex(p, a) ==
    /\ conns[p].pc = "idle"
    /\ conns' = [conns EXCEPT ![p] =
                    [Closed EXCEPT !.pc = "select", !.op = "index_content", !.a = a]]
    /\ UNCHANGED <<content, search_index, seq, now, last, before, settings>>

\* SELECT id FROM content WHERE audio_path = ?, outside any transaction
StepSelect(p) ==
    /\ conns[p].pc = "select"
    /\ LET existing == SelectIdByPath(Store, conns[p].a.audio_path)
       IN  conns' = [conns EXCEPT ![p] =
                        [@ EXCEPT !.pc = "run", !.existing = existing,
                                  !.prog = IndexProgram(existing, conns[p].a),
                                  !.i = 1]]
    /\ UNCHANGED <<content, search_index, seq, now, last, before, settings>>

\* delete_content is called: the connection is opened
CallDelete(p, content_id) ==
    /\ conns[p].pc = "idle"
    /\ conns' = [conns EXCEPT ![p] =
                    [Closed EXCEPT !.pc = "run", !.op = "delete_content",
                                   !.a = [content_id |-> content_id],
                                   !.content_id = content_id,
                                   !.prog = DeleteProgram, !.i = 1]]
    /\ UNCHANGED <<content, search_index, seq, now, last, before, settings>>

\* an UPDATE, INSERT or DELETE takes effect in the transaction of p
StepWrite(p) ==
    /\ conns[p].pc = "run"
    /\ NextStmt(p).op # "commit"
    /\ ~WriteLocked(p)
    /\ ~Raises(NextStmt(p), Working(p), conns[p].a)
    /\ NextStmt(p).op = "insert" => NextRowId(Working(p).db) <= MaxId
    /\ LET c == ExecIndexStmt(NextStmt(p), Working(p), conns[p].a, now)
       IN  conns' = [conns EXCEPT ![p] =
                        [@ EXCEPT !.txn = TRUE, !.db = c.db,
                                  !.content_id = c.content_id,
                                  !.rowcount =
                                     Cardinality(Working(p).db.content)
                                       - Cardinality(c.db.content),
                                  !.i = @ + 1]]
    /\ UNCHANGED <<content, search_index, seq, now, last, before, settings>>

\* a statement raises (the write lock is not obtained in time, or the INSERT
\* violates UNIQUE): the except returns False and close() rolls back
StepRaise(p) ==
    /\ conns[p].pc = "run"
    /\ NextStmt(p).op # "commit"
    /\ WriteLocked(p) \/ Raises(NextStmt(p), Working(p), conns[p].a)
    /\ LET after == CloseConnection(Store, Working(p).db, FALSE)
       IN  /\ content' = after.content
           /\ search_index' = after.search_index
           /\ seq' = after.seq
    /\ last' = [op |-> conns[p].op, caller |-> p, ret |-> FALSE, raised |-> FALSE]
    /\ conns' = [conns EXCEPT ![p] = Closed]
    /\ UNCHANGED <<now, before, settings>>

\* conn.commit(), the return and close()
StepCommit(p) ==
    /\ conns[p].pc = "run"
    /\ NextStmt(p).op = "commit"
    /\ LET after == CloseConnection(Store, Working(p).db, TRUE)
       IN  /\ content' = after.content
           /\ search_index' = after.search_index
           /\ seq' = after.seq
    /\ last' = [op |-> conns[p].op, caller |-> p,
                ret |-> IF conns[p].op = "delete_content"
                        THEN conns[p].rowcount > 0 ELSE TRUE,
                raised |-> FALSE]
    /\ conns' = [conns EXCEPT ![p] = Closed]
    /\ UNCHANGED <<now, before, settings>>

NextConcurrent ==
    \E p \in Callers :
        \/ \E a \in ConcurrentArgs : CallIndex(p, a)
        \/ \E id \in Ids : CallDelete(p, id)
        \/ StepSelect(p)
        \/ StepWrite(p)
        \/ StepRaise(p)
        \/ StepCommit(p)

SpecConcurrent == Init /\ [][NextConcurrent]_vars

\* no call is in progress
Quiescent == \A p \in Callers : conns[p].pc = "idle"

\* C3: whatever the interleaving of concurrent index_content and
\* delete_content calls, once they have returned every token row belongs to
\* a content row, no audio_path has two content rows, and the token rows of
\* each record are the full token set of one call (that of its current text)
C3_WritesAreAtomicUnits ==
    Quiescent =>
        /\ \A x \in DOMAIN search_index : \E r \in content : r.id = x.content_id
        /\ \A r1, r2 \in content : r1.audio_path = r2.audio_path => r1 = r2
        /\ C2_IndexMatchesContent

(***************************************************************************)
(* The text processor under calls made one at a time.                      *)
(***************************************************************************)
NextRewrite ==
    \/ \E text \in RewriteTexts, tone \in RewriteTones : RewriteText(text, tone)
    \/ \E text \in ProcessTexts, tone \in RewriteTones, language \in Languages,
          auto_shorten \in BOOLEAN : ProcessText(text, tone, language, auto_shorten)
    \/ \E outcome \in Outcomes : Attempt(outcome)
    \/ \E content_ \in PodcastContents, topic \in PodcastTopics, style \in PodcastStyles,
          api_key \in NarratorKeys : GeneratePodcastScript(content_, topic, style, api_key)
    \/ \E outcome \in PodcastOutcomes : PodcastAttempt(outcome)
    \/ \E service \in Services, api_key \in ApiKeys, project_id \in ProjectIds :
          Configure(service, api_key, project_id)

SpecRewrite == Init /\ [][NextRewrite]_vars

(***************************************************************************)
(* Properties of the text processor.                                       *)
(***************************************************************************)
\* the last call was rewrite_text and has come back
RewriteDone == last.op = "rewrite_text" /\ last.pc # "request"

\* the last call went to the simulation without the service being called:
\* no service was configured when it was made
Unserviced == last.events = <<Event("prompt", 0), Event("simulate", 0)>>

\* a text of full stops and whitespace only: no sentence for a tone to rewrite
Blank(text) == \A i \in 1..Len(text) : Ch(text, i) \in Whitespace \cup {"."}

\* C8: rewrite_text with a tone outside the configured tone set raises the
\* invalid-tone error for every text, before a prompt is built and before the
\* service or the simulation runs; no tone is substituted and no text returned
C8_InvalidToneRaisesAtOnce ==
    (RewriteDone /\ last.a.tone \notin DOMAIN AVAILABLE_TONES) =>
        /\ last.pc = "raised"
        /\ last.rewrite.raised
        /\ last.events = <<>>

C8_Witness ==
    /\ RewriteDone
    /\ last.a.tone \notin DOMAIN AVAILABLE_TONES
    /\ last.a.text = "Hi."
    /\ Configured
    /\ last.pc = "raised"

\* C9: process_text never raises; its result carries the input text as
\* original_text; when rewriting raised (an invalid tone included) success is
\* false and rewritten_text is the input text, otherwise success is true and
\* rewritten_text is what rewrite_text returned
C9_ProcessTextAlwaysReturns ==
    (last.op = "process_text" /\ last.pc # "request") =>
        /\ last.pc = "returned"
        /\ last.ret.original_text = last.a.text
        /\ last.ret.tone = last.a.tone /\ last.ret.language = last.a.language
        /\ last.rewrite.raised = (last.a.tone \notin DOMAIN AVAILABLE_TONES)
        /\ IF last.rewrite.raised
           THEN ~last.ret.success /\ last.ret.rewritten_text = last.a.text
           ELSE last.ret.success /\ last.ret.rewritten_text = last.rewrite.text

C9_Witness ==
    /\ last.op = "process_text" /\ last.pc = "returned"
    /\ last.rewrite.raised
    /\ ~last.ret.success
    /\ last.ret.rewritten_text = "Hi."

\* two calls of rewrite_text in a row with the same text and tone, neither
\* reaching a service, return the same text
SameOnEveryCall ==
    (/\ RewriteDone /\ Unserviced
     /\ RewriteDone' /\ Unserviced'
     /\ last'.a = last.a) => last'.ret = last.ret

C11_SentenceCountKept ==
    (RewriteDone /\ Unserviced) =>
        LET d == sentence_count(last.ret) - sentence_count(last.a.text)
        IN  d \in {-1, 0, 1}

\* the positions of the attempts in the trace of the last call
PostsAt == {i \in 1..Len(last.events) : last.events[i].e = "post"}

\* the last call reached the service and no attempt brought a generated text
AllAttemptsFailed ==
    /\ PostsAt # {}
    /\ \A i \in 1..Len(last.events) : last.events[i].e # "generated"

\* C13: on both backends, when every attempt on the service fails or no
\* credentials are configured, rewrite_text returns the simulated rewrite of
\* the input for the requested tone
C13_FailureFallsBackToSimulation ==
    (/\ last.op = "rewrite_text" /\ last.pc = "returned"
     /\ Unserviced \/ AllAttemptsFailed) =>
        last.ret = SimulatedRewrite(last.a)

\* C14: within one rewrite request every failed attempt is followed by a
\* further attempt until max_retries attempts were made, a wait of 1 s, then
\* 2 s, lies between every two consecutive attempts, and the simulation is
\* run only after the last attempt
C14_RetriesWithBackoff ==
    (last.op \in {"rewrite_text", "process_text"} /\ PostsAt # {}) =>
        /\ \A i, j \in PostsAt :
              (i < j /\ \A k \in PostsAt : ~(i < k /\ k < j)) =>
                  \E k \in (i + 1)..(j - 1) :
                      last.events[k] = Event("sleep", Pow2(last.events[i].n))
        /\ (last.pc = "returned" /\ AllAttemptsFailed) =>
              Cardinality(PostsAt) = max_retries
        /\ (\E i \in 1..Len(last.events) : last.events[i].e = "simulate") =>
              Cardinality(PostsAt) = max_retries

\* the attempts made so far by the last call, and the most it may make
Attempts == Cardinality(PostsAt)

Budget ==
    IF last.op = "generate_podcast_script" THEN narrator_max_retries ELSE max_retries

\* a call in flight stays in flight only by making one attempt more
AttemptCounts ==
    (Busy /\ Busy') =>
        /\ last'.op = last.op /\ last'.a = last.a
        /\ last'.attempt = last.attempt + 1

\* C12: a call to a text service ends within its attempt budget whatever the
\* service answers: rewrite_text makes at most 3 attempts and
\* generate_podcast_script at most 2, a call still in flight has attempts
\* left and each of its steps uses one up, and after the last attempt the call
\* has returned a value with no further wait
C12_CallsEndWithinBudget ==
    /\ [](last.op \in {"rewrite_text", "process_text", "generate_podcast_script"} =>
            /\ Attempts <= Budget
            /\ (last.op = "generate_podcast_script") => Attempts <= 2
            /\ (last.op = "rewrite_text") => Attempts <= 3
            /\ Busy => (last.attempt = Attempts /\ Attempts < Budget)
            /\ ~Busy => last.pc \in {"returned", "raised"}
            /\ last.pc = "raised" => Attempts = 0
            /\ Attempts = Budget =>
                    /\ last.pc = "returned"
                    /\ last.events[Len(last.events)].e # "sleep")
    /\ [][AttemptCounts]_vars

C12_Witness ==
    /\ last.op = "generate_podcast_script" /\ last.pc = "returned"
    /\ Attempts = narrator_max_retries
    /\ last.events[3] = Event("exception", 0)
    /\ last.events[Len(last.events)] = Event("prompt_template", 0)
    /\ last.ret # ""

(***************************************************************************)
(* The text analyzer under calls made one at a time.                       *)
(***************************************************************************)
NextAnalyzer ==
    \/ \E text \in AnalyzedTexts, max_sentences \in SentenceLimits, max_words \in WordLimits :
          ShortenText(text, max_sentences, max_words)
    \/ \E text \in AnalyzedTexts, max_words \in WordLimits : IsTextTooLong(text, max_words)

SpecAnalyzer == Init /\ [][NextAnalyzer]_vars

WordStarts(text) ==
    {i \in 1..Len(text) :
        Ch(text, i) \notin Whitespace /\ (i = 1 \/ Ch(text, i - 1) \in Whitespace)}

\* C17: is_text_too_long is true exactly when the text has more than
\* max_words whitespace-separated words; with the default of 150, a text of
\* 151 words is too long and a text of 150 words is not
C17_TooLongIsStrictlyMore ==
    last.op = "is_text_too_long" =>
        /\ last.ret = (Cardinality(WordStarts(last.a.text)) > last.a.max_words)
        /\ (last.a.text = Repeat("word ", 151) /\ last.a.max_words = 150) => last.ret
        /\ (last.a.text = Repeat("word ", 150) /\ last.a.max_words = 150) => ~last.ret

C17_Witness ==
    /\ last.op = "is_text_too_long"
    /\ last.a.max_words = too_long_max_words
    /\ Len(words(last.a.text)) = too_long_max_words
    /\ ~last.ret

(***************************************************************************)
(* The engine under requests made one at a time.                           *)
(***************************************************************************)
NextSpeech ==
    \E a \in AudioArgs, env \in Environments : seq < MaxAudio /\ GenerateAudio(a, env)

SpecSpeech == Init /\ [][NextSpeech]_vars

\* the voices configured for a language, those of English when it has none
ConfiguredVoices(language) ==
    LET vs == IF language \in DOMAIN AVAILABLE_VOICES THEN AVAILABLE_VOICES[language]
              ELSE AVAILABLE_VOICES["English"]
    IN  {vs[i] : i \in DOMAIN vs}

\* the first voice configured for a language
DefaultVoice(language) ==
    IF language \in DOMAIN AVAILABLE_VOICES THEN AVAILABLE_VOICES[language][1]
    ELSE AVAILABLE_VOICES["English"][1]

\* the steps of the last request in which the cloud synthesizer was called
CloudSteps ==
    {i \in DOMAIN last.steps :
        last.steps[i].step = "Synthesize" /\ last.steps[i].with.by = "ibm_tts"}

\* C15: a request never fails because of its voice or language.  The voice
\* a request uses is one of the voices configured for its language (of
\* English when the language has none); it is the requested voice when that
\* is one of them and the first of them otherwise.  The cloud synthesizer
\* is called with the code of that voice, the index records that voice, and
\* a request fails only when the analysis raises, the file cannot be named
\* or no synthesizer produces audio.
C15_VoiceIsOfTheLanguage ==
    last.op = "generate_audio" =>
        LET configured == ConfiguredVoices(last.a.language)
            names == {v.name : v \in configured}
        IN  /\ last.voice \in names
            /\ last.a.voice \in names => last.voice = last.a.voice
            /\ last.a.voice \notin names => last.voice = DefaultVoice(last.a.language).name
            /\ \A i \in CloudSteps :
                    [name |-> last.voice, voice |-> last.steps[i].with.voice] \in configured
            /\ \A i \in DOMAIN last.index : last.index[i].voice = last.voice
            /\ ~last.ret.success =>
                    \/ last.env.analysis = "raises"
                    \/ last.env.utils = "utils.py"
                    \/ last.env.ibm_tts # "works" /\ last.env.gtts = "fails"

\* a request for a voice of another language, in a language without voices,
\* was synthesized in the cloud with the first English voice and indexed
C15_Witness ==
    /\ last.op = "generate_audio"
    /\ last.a.voice = "Mazeo" /\ last.a.language = "Klingon"
    /\ last.voice = "Lisa"
    /\ last.ret.success
    /\ \E i \in CloudSteps : last.steps[i].ok /\ last.steps[i].with.voice = "en-US_LisaV3Voice"
    /\ \E r \in content : r.voice = "Lisa"

AnalysisKeys ==
    {"char_count", "word_count", "sentence_count", "common_words",
     "reading_time_minutes", "nltk_available"}

\* C19: every request returns, and in its result success is true exactly
\* when the audio path is not null and exactly when there is no error
\* detail.  A failed request returns the text as it was given and
\* statistics of that text: its length and its number of words, with one
\* sentence, no common words and no reading time when the analysis itself
\* raises.
C19_ResultIsConsistent ==
    last.op = "generate_audio" =>
        /\ last.pc = "returned"
        /\ {"audio_path", "processed_text", "analysis", "success"} \subseteq DOMAIN last.ret
        /\ last.ret.success <=> last.ret.audio_path # NoPath
        /\ last.ret.success <=> "error" \notin DOMAIN last.ret
        /\ AnalysisKeys \subseteq DOMAIN last.ret.analysis
        /\ ~last.ret.success =>
                /\ last.ret.processed_text = last.a.text
                /\ last.ret.analysis.char_count = Len(last.a.text)
                /\ last.ret.analysis.word_count = Cardinality(WordStarts(last.a.text))
                /\ last.env.analysis = "raises" =>
                        /\ last.ret.analysis.sentence_count = 1
                        /\ last.ret.analysis.common_words = <<>>
                        /\ last.ret.analysis.reading_time_minutes = 0
                /\ last.env.analysis = "works" =>
                        last.ret.analysis.sentence_count = sentence_count(last.a.text)

\* a request whose analysis raised returned the minimal statistics of a text
\* of many sentences, with the error and without a path
C19_Witness ==
    /\ last.op = "generate_audio"
    /\ last.env.analysis = "raises"
    /\ ~last.ret.success
    /\ last.ret.audio_path = NoPath
    /\ "error" \in DOMAIN last.ret
    /\ last.ret.analysis.word_count > too_long_max_words
    /\ last.ret.analysis.sentence_count = 1

\* the place of a step in Analyze, Shorten, Synthesize, Enhance, Index, Result
StepRank ==
    "Analyze" :> 1 @@ "Shorten" :> 2 @@ "Synthesize" :> 3 @@ "Enhance" :> 4
    @@ "Index" :> 5 @@ "Result" :> 6

\* the positions of the steps of a kind in the last request
StepsOf(kind) == {i \in DOMAIN last.steps : last.steps[i].step = kind}

\* the positions at which a synthesizer produced the audio file
Synthesized == {i \in StepsOf("Synthesize") : last.steps[i].ok}

\* C20: the steps of a request occur in the order Analyze, Shorten
\* (optional), Synthesize, Enhance (optional), Index, Result.  The text is
\* shortened exactly when asked and too long, the audio is enhanced exactly
\* when the request succeeds in podcast mode, index_content is called at
\* most once, only after a synthesizer has produced the file and after the
\* enhancement, with the path the result returns as key, and never when
\* synthesis failed: then the store is left as it was.  When the indexing
\* fails the store is left as it was and the result is the success result
\* of the same request with the indexing succeeding.
C20_StepsInOrder ==
    last.op = "generate_audio" =>
        /\ last.steps[1].step = "Analyze"
        /\ last.steps[Len(last.steps)].step = "Result"
        /\ \A i, j \in DOMAIN last.steps : i < j =>
                \/ StepRank[last.steps[i].step] < StepRank[last.steps[j].step]
                \/ last.steps[i].step = "Synthesize" /\ last.steps[j].step = "Synthesize"
        /\ Cardinality(StepsOf("Index")) <= 1
        /\ Cardinality(StepsOf("Index")) = Len(last.index)
        /\ StepsOf("Shorten") # {} <=>
                /\ last.env.analysis = "works"
                /\ last.a.auto_shorten
                /\ Cardinality(WordStarts(last.a.text)) > too_long_max_words
        /\ StepsOf("Enhance") # {} <=> (last.a.podcast_mode /\ last.ret.success)
        /\ StepsOf("Index") # {} <=> Synthesized # {}
        /\ Synthesized # {} <=> last.ret.success
        /\ \A i \in StepsOf("Index") :
                /\ \E j \in Synthesized : j < i
                /\ last.index[1].audio_path = last.ret.audio_path[1]
                /\ last.steps[i].with.audio_path = last.ret.audio_path[1]
                /\ last.steps[i].ok <=> last.env.fail = "none"
                /\ last.steps[i].ok =>
                        \E r \in content :
                            /\ r.audio_path = last.ret.audio_path[1]
                            /\ r.rewritten_text = last.ret.processed_text
                /\ ~last.steps[i].ok =>
                        /\ Store = before
                        /\ last.ret.success
                        /\ last.ret =
                              GenerateAudioTable[<<last.a,
                                  [last.env EXCEPT !.fail = "none"]>>].ret
        /\ Synthesized = {} => Store = before

\* a request in podcast mode was shortened, synthesized by gTTS after the
\* cloud synthesizer failed, enhanced and then indexed under the path of the
\* podcast file; the commit raised, and the request succeeded all the same
C20_Witness ==
    /\ last.op = "generate_audio"
    /\ [i \in DOMAIN last.steps |-> last.steps[i].step]
            = <<"Analyze", "Shorten", "Synthesize", "Synthesize", "Enhance", "Index",
                "Result">>
    /\ [i \in DOMAIN last.steps |-> last.steps[i].ok]
            = <<TRUE, TRUE, FALSE, TRUE, TRUE, FALSE, TRUE>>
    /\ last.env.fail = "commit"
    /\ last.ret.success
    /\ last.index[1].audio_path = last.ret.audio_path[1]
    /\ last.ret.audio_path[1] = "temp/audio/podcast_neutral_alexa_podcast.mp3"
    /\ content = {}

(***************************************************************************)
(* Properties of the podcast enhancement of a request.                     *)
(***************************************************************************)
\* the path _generate_audio_file writes the synthesized audio of the last
\* request to
SynthesizedPath == AudioPath(FileName("audiobook", last.a.tone, last.voice, ".mp3"))

\* C21: in a successful request in podcast mode analysis.podcast_enhanced is
\* true exactly when create_podcast_audio produced the podcast file; when it
\* did not, the result carries the path of the synthesized file.  Without
\* podcast mode podcast_enhanced is false.
C21_EnhancedExactlyOnSuccess ==
    (last.op = "generate_audio" /\ last.ret.success) =>
        /\ last.a.podcast_mode =>
                (last.ret.analysis.podcast_enhanced
                    <=> last.env.create_podcast_audio = "copy works")
        /\ (last.a.podcast_mode /\ last.env.create_podcast_audio # "copy works") =>
                last.ret.audio_path = PathOf(SynthesizedPath)
        /\ ~last.a.podcast_mode => ~last.ret.analysis.podcast_enhanced

(***************************************************************************)
(* Properties of the podcast narrator.                                     *)
(***************************************************************************)
\* the narrator wrote the template without calling the service: it was built
\* without a key
NarratorUnserviced == last.events = <<Event("prompt", 0), Event("template", 0)>>

\* the argument of the last call with the style Educational in its place
AsEducational == [last.a EXCEPT !.style = "Educational"]

\* C22: generate_podcast_script called with a style that is none of the five
\* recognised ones and no service available returns the template script of
\* the same content and topic in the style Educational
C22_UnknownStyleIsEducational ==
    (/\ last.op = "generate_podcast_script" /\ last.pc = "returned"
     /\ last.a.style \notin DOMAIN style_prompts
     /\ NarratorUnserviced) =>
        last.ret = TemplateScript(AsEducational)

\* every attempt of the last call on the service ended in an exception of
\* the request (timeout, connection error) or in a status other than 200
EveryAttemptFailed ==
    /\ PostsAt # {}
    /\ \A i \in PostsAt : last.events[i + 1].e \in {"exception", "status"}

\* C23: when the service is configured and every attempt on it fails,
\* generate_podcast_script returns, for every recognised style, the template
\* script of the content, topic and style of the call: the text it returns
\* when no service is configured
C23_FailureFallsBackToTemplate ==
    (/\ last.op = "generate_podcast_script" /\ last.pc = "returned"
     /\ last.a.style \in DOMAIN style_prompts
     /\ EveryAttemptFailed) =>
        last.ret = TemplateScript(last.a)

(***************************************************************************)
(* The engine under requests made one after another while the synthesizer  *)
(* works.  A request that writes to the path of a record the store holds   *)
(* assigns no id, so MaxAudio bounds the paths written to and not the      *)
(* requests.                                                               *)
(***************************************************************************)
WorkingEnvironments ==
    {env \in Environments :
        /\ env.analysis = "works" /\ env.utils = "copy"
        /\ env.ibm_tts = "absent" /\ env.gtts = "works"}

\* the path the request writes its audio to and indexes it under
RequestPath(a, env) == GenerateAudioTable[<<a, env>>].index[1].audio_path

NextRepeat ==
    \E a \in RepeatedArgs, env \in WorkingEnvironments :
        /\ SelectIdByPath(Store, RequestPath(a, env)) = NoRow => seq < MaxAudio
        /\ GenerateAudio(a, env)

SpecRepeat == Init /\ [][NextRepeat]_vars

\* C24: a request that succeeds writes its audio to a path no request before
\* it wrote to, and the records indexed before it are all still in the store
C24_RequestsWriteToDifferentPaths ==
    (last.op = "generate_audio" /\ last.ret.success) =>
        /\ \A r \in before.content : r.audio_path # last.ret.audio_path[1]
        /\ before.content \subseteq content

(***************************************************************************)
(* Deleting a record.                                                      *)
(***************************************************************************)
\* the call made last was delete_content and the storage layer worked
DeletedLast == last.op = "delete_content" /\ last.fail = NoFailure

\* the token rows of db that belong to the records other than content_id
OtherTokenRows(db, content_id) ==
    LET keep == {x \in DOMAIN db.search_index : x.content_id # content_id}
    IN  [x \in keep |-> db.search_index[x]]

\* C25: delete_content returns true exactly when a content row with the id
\* existed; after it no content row and no token row has the id,
\* get_content_by_id finds nothing, every other record and its token rows are
\* as they were, and deleting an id that has no row changes nothing
C25_DeleteCascades ==
    DeletedLast =>
        LET id == last.content_id
            existed == \E r \in before.content : r.id = id
        IN  /\ last.ret <=> existed
            /\ \A r \in content : r.id # id
            /\ \A x \in DOMAIN search_index : x.content_id # id
            /\ SelectById(Store, id) = NoRow
            /\ content = {r \in before.content : r.id # id}
            /\ search_index = OtherTokenRows(before, id)
            /\ ~existed => Store = before

\* a record with token rows was deleted while another record with token rows
\* was in the store
C25_Witness ==
    /\ DeletedLast
    /\ last.ret
    /\ \E x \in DOMAIN before.search_index : x.content_id = last.content_id
    /\ \E r \in content : \E x \in DOMAIN search_index : x.content_id = r.id

(***************************************************************************)
(* The week filter, with records from the same day to ten days old.        *)
(***************************************************************************)
WeekDays == {0, 2, 7, 8, 10}

\* the first and the last moment of each of the days
WeekInstants == {d * TicksPerDay + h : d \in WeekDays, h \in {0, TicksPerDay - 1}}

WeekArgs ==
    [title : {"Cat cat ox"}, original_text : {"Cat cat ox"},
     rewritten_text : {""}, tone : {"Neutral"}, voice : {"Lisa"},
     audio_path : Paths, word_count : {3}, duration_minutes : {1}]

WeekQueries == {"", "cat", "dog"}

\* time passes to a later one of the instants
Advance ==
    /\ \E t \in WeekInstants : now < t /\ now' = t
    /\ last' = [op |-> "tick", raised |-> FALSE]
    /\ before' = Store
    /\ UNCHANGED <<content, search_index, seq, conns, settings>>

NextWeek ==
    \/ \E a \in WeekArgs : IndexContent(a, NoFailure)
    \/ \E q \in WeekQueries : SearchContent(q, NoFilter, NoFilter, "week", 10, NoFailure)
    \/ Advance

SpecWeek == Init /\ [][NextWeek]_vars

\* the call made last was a search with the date filter "week" alone and a
\* limit no smaller than the number of records
WeekSearchedLast ==
    /\ last.op = "search_content"
    /\ last.fail = NoFailure
    /\ last.date_filter = "week"
    /\ last.tone_filter = NoFilter /\ last.voice_filter = NoFilter
    /\ Cardinality(content) <= last.limit

\* the records the query of the last search matches: all of them when the
\* query has no token
MatchesLastQuery(r) == LastQueryTokens = {} \/ MatchedRows(r) # {}

ReturnedIds == {last.ret[i].id : i \in DOMAIN last.ret}

\* C26: a search with the date filter "week" returns no record created 8 or
\* more days before now, and returns every record the query matches that was
\* created less than 7 days before now
C26_WeekFilter ==
    WeekSearchedLast =>
        /\ \A r \in content : Age(r) >= 8 * TicksPerDay => r.id \notin ReturnedIds
        /\ \A r \in content :
             (MatchesLastQuery(r) /\ Age(r) < 7 * TicksPerDay) => r.id \in ReturnedIds

(***************************************************************************)
(* The query preprocessing, over URLs of up to two path segments and       *)
(* queries that are not URLs.                                              *)
(***************************************************************************)
UrlSchemes == {"https://", "http://"}
UrlSegments == {"", "wiki", "article", "Artificial_intelligence", "Big-cat%20dog"}
UrlPaths ==
    {""} \cup {"/" \o s : s \in UrlSegments}
         \cup {"/" \o s \o "/" \o t : s \in UrlSegments, t \in UrlSegments}
UrlTails == {"", "?q=a_b", "#Top_x"}
UrlQueries ==
    {scheme \o "en.wikipedia.org" \o path \o tail :
        scheme \in UrlSchemes, path \in UrlPaths, tail \in UrlTails}
PlainQueries ==
    {"", "cat", "Artificial_intelligence", "Big-cat%20dog", "en.wikipedia.org/wiki/Cat_dog",
     "see https://en.wikipedia.org/wiki/Cat_dog", "https://", "ftp://x.org/Cat_dog"}

NextKeywords == \E query \in UrlQueries \cup PlainQueries : ExtractKeywords(query)

SpecKeywords == Init /\ [][NextKeywords]_vars

\* the positions of the path segments that are neither empty nor boilerplate
MeaningfulAt(parts) ==
    {i \in DOMAIN parts : parts[i] # "" /\ parts[i] \notin BoilerplateSegments}

\* a segment read from left to right, with a space for every "_", "-" and "%20"
RECURSIVE SpacedOut(_)
SpacedOut(part) ==
    IF part = "" THEN ""
    ELSE IF SubSeq(part, 1, Min(3, Len(part))) = "%20"
         THEN " " \o SpacedOut(SubSeq(part, 4, Len(part)))
    ELSE IF Ch(part, 1) \in {"_", "-"}
         THEN " " \o SpacedOut(SubSeq(part, 2, Len(part)))
    ELSE Ch(part, 1) \o SpacedOut(SubSeq(part, 2, Len(part)))

\* the keywords and the search tokens that come from text
ComesFrom(text) ==
    /\ last.ret = text
    /\ last.search_tokens = tokenize_text(lower(text))

\* C27: for a query that is a URL the keywords are the last path segment that
\* is neither empty nor boilerplate, with "_", "-" and "%20" turned into
\* spaces, and the search tokens are the tokens of the keywords; a URL without
\* such a segment and a query that is not a URL are tokenized as they are;
\* https://en.wikipedia.org/wiki/Artificial_intelligence gives
\* "Artificial intelligence"
C27_KeywordsFromUrl ==
    last.op = "extract_keywords_from_url" =>
        LET query == last.a.query
            parts == split(UrlPath(query), "/")
            at == MeaningfulAt(parts)
        IN  /\ (LooksLikeUrl(query) /\ at # {}) =>
                  ComesFrom(SpacedOut(parts[CHOOSE i \in at : \A j \in at : j <= i]))
            /\ (LooksLikeUrl(query) /\ at = {}) => ComesFrom(query)
            /\ ~LooksLikeUrl(query) => ComesFrom(query)
            /\ query = "https://en.wikipedia.org/wiki/Artificial_intelligence" =>
                  /\ last.ret = "Artificial intelligence"
                  /\ last.search_tokens = <<"artificial", "intelligence">>

\* a URL whose last segment is boilerplate and whose segment before it has an
\* underscore
C27_Witness ==
    /\ last.op = "extract_keywords_from_url"
    /\ last.a.query = "https://en.wikipedia.org/Artificial_intelligence/wiki#Top_x"
    /\ last.ret = "Artificial intelligence"

(***************************************************************************)
(* The budget of shorten_text.                                             *)
(***************************************************************************)
\* text is made of at most max_sentences of the sentences, joined with
\* spaces, as it is or cut to max_words words with "..." appended
MadeOf(text, sentences, max_sentences, max_words) ==
    \E k \in 1..max_sentences :
        \E pick \in [1..k -> {sentences[i] : i \in DOMAIN sentences}] :
            \/ text = join(" ", pick)
            \/ /\ Len(words(join(" ", pick))) > max_words
               /\ text = join(" ", SubSeq(words(join(" ", pick)), 1, max_words)) \o "..."

\* C28: for a text of more than max_sentences sentences, shorten_text returns
\* a text made of at most max_sentences of the input's sentences that has at
\* most max_words whitespace-separated words
C28_WithinBudget ==
    (/\ last.op = "shorten_text"
     /\ last.a.max_sentences >= 1 /\ last.a.max_words >= 1
     /\ sentence_count(last.a.text) > last.a.max_sentences) =>
        /\ MadeOf(last.ret, simple_sent_tokenize(last.a.text),
                  last.a.max_sentences, last.a.max_words)
        /\ Cardinality(WordStarts(last.ret)) <= last.a.max_words

(***************************************************************************)
(* The order of the sentences shorten_text keeps.                          *)
(***************************************************************************)
\* the position of the longest sentence between the first and the last, the
\* earliest of the longest when there are several
LongestInterior(sentences) ==
    CHOOSE i \in 2..(Len(sentences) - 1) :
        \A j \in 2..(Len(sentences) - 1) :
            \/ Len(sentences[j]) < Len(sentences[i])
            \/ Len(sentences[j]) = Len(sentences[i]) /\ i <= j

\* the first sentence, the last, then the longest in between
FirstLastLongest(sentences) ==
    sentences[1] \o " " \o sentences[Len(sentences)]
                 \o " " \o sentences[LongestInterior(sentences)]

\* the call made last was shorten_text with the default limits on a text of
\* more than 3 sentences
ShortenedByDefault ==
    /\ last.op = "shorten_text"
    /\ last.a.max_sentences = shorten_max_sentences
    /\ last.a.max_words = shorten_max_words
    /\ sentence_count(last.a.text) > shorten_max_sentences

ShortenedLast ==
    /\ last.op = "generate_audio"
    /\ last.ret.success
    /\ last.a.auto_shorten
    /\ Cardinality(WordStarts(last.a.text)) > too_long_max_words

\* C30: a request with auto_shorten whose text has more than 150 words returns
\* as processed_text, and indexes as the text spoken, a text within the
\* budget of 3 of the input's sentences and 100 words; was_shortened is true
\* only if that text differs from the input, and original_word_count is the
\* number of words of the input
C30_ShortenedWithinBudget ==
    ShortenedLast =>
        /\ MadeOf(last.ret.processed_text, simple_sent_tokenize(last.a.text),
                  shorten_max_sentences, shorten_max_words)
        /\ Cardinality(WordStarts(last.ret.processed_text)) <= shorten_max_words
        /\ \A i \in DOMAIN last.index :
                last.index[i].rewritten_text = last.ret.processed_text
        /\ "was_shortened" \in DOMAIN last.ret.analysis
        /\ last.ret.analysis.was_shortened => last.ret.processed_text # last.a.text
        /\ last.ret.analysis.original_word_count = Cardinality(WordStarts(last.a.text))

====
